---------------------------- MODULE Spec2Model ----------------------------
(***************************************************************************)
(* Model of the cadastral parcel resolution pipeline                       *)
(* (download_list_ple_x_attributo_wfs_AdE.py and its variants).            *)
(*                                                                         *)
(* Strings are sequences of one-character strings, so that split, strip,   *)
(* zfill, int() and str() are computed character by character.             *)
(***************************************************************************)
EXTENDS Integers, Sequences, FiniteSets, TLC

VARIABLES
    pIn,        \* parse_particelle_input: the particella_input argument
    pOut,       \* parse_particelle_input: its result, NoValue before the call
    pPc,        \* parse_particelle_input: "idle" | "ready" | "done"
    rVariant,   \* get_parquet_file: "list" | "single", the file it is taken from
    rComune,    \* get_parquet_file: the INPUT_COMUNE parameter as typed
    rIoError,   \* get_parquet_file: whether the index query raises
    rOut,       \* get_parquet_file: its outcome, NoValue before the call
    rPc,        \* get_parquet_file: "idle" | "ready" | "done"
    cComune,    \* get_coordinates: the municipality code
    cFoglio,    \* get_coordinates: the INPUT_FOGLIO parameter as typed
    cParticella, \* get_coordinates: the requested parcel id
    cSezione,   \* get_coordinates: the INPUT_SEZIONE parameter as typed
    cIoError,   \* get_coordinates: whether the dataset query raises
    cOut,       \* get_coordinates: the returned list, None, or NoValue before the call
    cPc,        \* get_coordinates: "idle" | "ready" | "done"
    variant,    \* the entry point that runs: "idle" | "list" | "single" | "csv" | "fc" | "testone"
    layerKind,  \* INPUT_LAYER: "new" (none given), "shp" or "gpkg" (an existing layer)
    layerInit,  \* the features of INPUT_LAYER when the run starts
    inComune,   \* INPUT_COMUNE as typed
    inFoglio,   \* INPUT_FOGLIO as typed
    inParticella, \* INPUT_PARTICELLA as typed
    inSezione,  \* INPUT_SEZIONE as typed
    inAll,      \* INPUT_ALL_PARTICELLE
    pc,         \* the position of the run
    sink,       \* the features of the output (of the existing layer, when the sink is its provider)
    editMode,   \* the existing layer: "none" | "editing" | "update" | "committed" | "rolledback" | "left"
    codice_comune, \* self.codice_comune, <<>> while unset
    file_name,  \* file_name, None while unset
    last_geometry, \* self.last_geometry
    last_layer_id, \* self.last_layer_id
    last_feature_id, \* self.last_feature_id
    particelle_da_cercare, \* the parcel ids to look up
    loop_i,     \* i, the index of the for loop over particelle_da_cercare, from 0
    particelle_non_trovate, \* the not-found list
    particelle_trovate, \* the found count
    coordinates_list, \* the seeds of the current parcel id
    seed_j,     \* the position of the for loop in coordinates_list, from 1
    found,      \* the local found of the current parcel id
    loc_last_geometry, \* the local last_geometry of the current parcel id
    canceled,   \* feedback.isCanceled()
    progress,   \* the last value given to feedback.setProgress, None before the first
    resolution, \* the outcome of the municipality lookup for the current input
    shown,      \* the candidates shown to the user by the lookup
    lookups,    \* dataset queries issued for the current input
    fetchLog,   \* the calls of get_particella_wfs of the run, in order
    lastFetch,  \* the last call of get_particella_wfs: entry state and result
    faults,     \* failures of the environment so far (queries, service, reprojection, sink)
    csvRows,    \* INPUT_CSV: the rows of the file, <<>> without one
    idx,        \* the number of CSV rows taken so far
    fcResult,   \* the text get_particel_wkt returns
    sinkAtInput, \* the output as it was when the current input was taken
    fetches,    \* feature-service requests issued for the current input
    lookupLog,  \* the calls of get_coordinates of the loop of the list variant, in order
    connections, \* the number of dataset connections (duckdb.connect) that are open
    wCoordinates, \* get_particella_wfs: the seed (x, y)
    wSink,      \* get_particella_wfs: the features of the sink when the call begins
    wHasLayer,  \* get_particella_wfs: whether input_layer is given (the sink is that layer)
    wWfs,       \* get_particella_wfs: what the service does
    wFates,     \* get_particella_wfs: what reprojection and sink do to each candidate
    wOut,       \* get_particella_wfs: the result, NoValue before the call
    wPc,        \* get_particella_wfs: "idle" | "ready" | "done"
    ref_catastale, \* decomposition: the reference of a candidate
    refVariant, \* decomposition: "list" | "testone", "idle" when not in use
    refOut,     \* decomposition: the components, NoValue before the step
    foglioIn,   \* sheet normalisation: the sheet as the user gives it
    foglioVariant, \* sheet normalisation: "list" | "single" | "csv" | "fc" | "testone"
    foglioOut,  \* sheet normalisation: the sheet handed on, NoValue before the step
    rawRow,     \* decoding: the rows of a result, x and y are the stored integers in decimal digits
    decodeVariant, \* decoding: "list" | "single", "idle" when not in use
    decoded,    \* decoding: the list of (x, y) returned, NoValue before the step
    refPc,      \* decomposition: "idle" | "ready" | "done"
    sheetPc,    \* sheet normalisation: "idle" | "ready" | "done"
    decodePc    \* decoding: "idle" | "ready" | "done"

parseVars == <<pIn, pOut, pPc>>

resolveVars == <<rVariant, rComune, rIoError, rOut, rPc>>

locateVars == <<cComune, cFoglio, cParticella, cSezione, cIoError, cOut, cPc>>

callVars == <<wCoordinates, wSink, wHasLayer, wWfs, wFates, wOut, wPc>>

refVars == <<ref_catastale, refVariant, refOut, refPc>>

sheetVars == <<foglioIn, foglioVariant, foglioOut, sheetPc>>

decodeVars == <<rawRow, decodeVariant, decoded, decodePc>>

unitVars == <<refVars, sheetVars, decodeVars>>

inputVars == <<variant, layerKind, layerInit, inComune, inFoglio, inParticella, inSezione, inAll,
               csvRows>>

perInputVars == <<idx, fcResult, sinkAtInput, fetches>>

cursorVars == <<last_geometry, last_layer_id, last_feature_id>>

loopVars == <<particelle_da_cercare, loop_i, particelle_non_trovate, particelle_trovate, progress>>

seedVars == <<coordinates_list, seed_j, found, loc_last_geometry>>

resolveStateVars == <<codice_comune, file_name, resolution, shown>>

fetchVars == <<sink, fetchLog, lastFetch, lookupLog>>

runVars == <<inputVars, pc, editMode, cursorVars, loopVars, seedVars, resolveStateVars,
             fetchVars, canceled, lookups, faults, perInputVars, connections>>

vars == <<pIn, pOut, pPc, rVariant, rComune, rIoError, rOut, rPc,
          cComune, cFoglio, cParticella, cSezione, cIoError, cOut, cPc,
          variant, layerKind, layerInit, inComune, inFoglio, inParticella, inSezione, inAll,
          pc, sink, editMode, codice_comune, file_name, last_geometry, last_layer_id,
          last_feature_id, particelle_da_cercare, loop_i, particelle_non_trovate,
          particelle_trovate, coordinates_list, seed_j, found, loc_last_geometry, canceled,
          progress, resolution, shown, lookups, fetchLog, lastFetch, faults,
          csvRows, idx, fcResult, sinkAtInput, fetches, lookupLog, connections,
          wCoordinates, wSink, wHasLayer, wWfs, wFates, wOut, wPc,
          ref_catastale, refVariant, refOut, foglioIn, foglioVariant, foglioOut,
          rawRow, decodeVariant, decoded, refPc, sheetPc, decodePc>>

NoValue == "NoValue"

(***************************************************************************)
(* Bounds of the model.                                                    *)
(***************************************************************************)
MaxSpecLen == 5

MaxQueryLen == 3

MaxIdLen == 2

\* Failures the environment may inject in one run.
MaxFaults == 2

(***************************************************************************)
(* Python string primitives.                                               *)
(***************************************************************************)
DigitChars == <<"0", "1", "2", "3", "4", "5", "6", "7", "8", "9">>

Digits == {DigitChars[i] : i \in 1..10}

DigitVal(c) == (CHOOSE i \in 1..10 : DigitChars[i] = c) - 1

Contains(s, c) == \E i \in 1..Len(s) : s[i] = c

\* str.replace(c, ""): every occurrence of the character is removed.
RemoveChar(s, c) == SelectSeq(s, LAMBDA x : x # c)

\* str.strip(), for the space character.
RECURSIVE TrimLeft(_)
TrimLeft(s) == IF Len(s) > 0 /\ s[1] = " " THEN TrimLeft(Tail(s)) ELSE s

RECURSIVE TrimRight(_)
TrimRight(s) ==
    IF Len(s) > 0 /\ s[Len(s)] = " " THEN TrimRight(SubSeq(s, 1, Len(s) - 1)) ELSE s

Trim(s) == TrimRight(TrimLeft(s))

\* str.upper() and the case folding of ILIKE, on the letters of the model.
LowerChars == <<"a", "b">>

UpperChars == <<"A", "B">>

UpperChar(c) ==
    IF \E i \in 1..Len(LowerChars) : LowerChars[i] = c
    THEN UpperChars[CHOOSE i \in 1..Len(LowerChars) : LowerChars[i] = c]
    ELSE c

Upper(s) == [i \in 1..Len(s) |-> UpperChar(s[i])]

\* str.zfill(4): zeros on the left (after a leading sign) up to four
\* characters, longer strings kept.
RECURSIVE ZFill4(_)
ZFill4(s) ==
    IF Len(s) >= 4 THEN s
    ELSE IF Len(s) > 0 /\ s[1] \in {"+", "-"} THEN ZFill4(<<s[1], "0">> \o Tail(s))
    ELSE ZFill4(<<"0">> \o s)

\* SQL "s LIKE pat": % matches any run of characters, _ any one character,
\* every other character itself (DuckDB has no default escape character).
RECURSIVE LikeFrom(_, _, _, _)
LikeFrom(s, i, pat, j) ==
    IF j > Len(pat) THEN i > Len(s)
    ELSE IF pat[j] = "%" THEN \E k \in i..(Len(s) + 1) : LikeFrom(s, k, pat, j + 1)
    ELSE IF i > Len(s) THEN FALSE
    ELSE (pat[j] = "_" \/ pat[j] = s[i]) /\ LikeFrom(s, i + 1, pat, j + 1)

Like(s, pat) == LikeFrom(s, 1, pat, 1)

\* SQL "s ILIKE pat": LIKE without regard to case.
ILike(s, pat) == Like(Upper(s), Upper(pat))

\* str.split(sep): the pieces between the separators, empty pieces kept.
RECURSIVE SplitFrom(_, _, _, _)
SplitFrom(s, sep, i, cur) ==
    IF i > Len(s) THEN <<cur>>
    ELSE IF s[i] = sep THEN <<cur>> \o SplitFrom(s, sep, i + 1, <<>>)
    ELSE SplitFrom(s, sep, i + 1, Append(cur, s[i]))

Split(s, sep) == SplitFrom(s, sep, 1, <<>>)

\* int(s) accepts s when, after an optional "+", it is a non-empty run of
\* decimal digits (a "-" never reaches int(): the caller splits on it).
IntBody(s) == IF Len(s) > 0 /\ s[1] = "+" THEN Tail(s) ELSE s

IsInt(s) == Len(IntBody(s)) > 0 /\ \A i \in 1..Len(IntBody(s)) : IntBody(s)[i] \in Digits

RECURSIVE DigitsValue(_)
DigitsValue(s) ==
    IF Len(s) = 0 THEN 0
    ELSE 10 * DigitsValue(SubSeq(s, 1, Len(s) - 1)) + DigitVal(s[Len(s)])

ParseInt(s) == DigitsValue(IntBody(s))

\* str(n) for n >= 0: the decimal digits, without leading zeros.
RECURSIVE IntToStr(_)
IntToStr(n) ==
    IF n < 10 THEN <<DigitChars[n + 1]>>
    ELSE Append(IntToStr(n \div 10), DigitChars[(n % 10) + 1])

\* Mutant of RangeStrs: a reversed range is expanded downwards.
RangeStrsDescending(start, stop) ==
    IF stop <= start THEN [k \in 1..(start - stop + 2) |-> IntToStr(start - k + 1)]
    ELSE [k \in 1..(stop - start) |-> IntToStr(start + k - 1)]

\* [str(i) for i in range(start, stop)]
RangeStrs(start, stop) ==
    IF stop <= start THEN <<>>
    ELSE [k \in 1..(stop - start) |-> IntToStr(start + k - 1)]

(***************************************************************************)
(* parse_particelle_input                                                  *)
(***************************************************************************)
\* start, end = map(int, part.split("-")): the exception the statement
\* raises, "none" when both names are bound.
UnpackRangeError(part) ==
    LET pieces == Split(part, "-") IN
    IF Len(pieces) # 2 THEN "ValueError"
    ELSE IF ~IsInt(pieces[1]) \/ ~IsInt(pieces[2]) THEN "ValueError"
    ELSE "none"

\* Mutant of ExpandRange: range(start, end), the upper end left out.
ExpandRangeExclusive(part) ==
    LET pieces == Split(part, "-") IN
    RangeStrs(ParseInt(pieces[1]), ParseInt(pieces[2]))

\* range(start, end + 1) of a part whose unpacking succeeded.
ExpandRange(part) ==
    LET pieces == Split(part, "-") IN
    RangeStrs(ParseInt(pieces[1]), ParseInt(pieces[2]) + 1)

\* Mutant of ParsePart: no try/except around the unpacking.
ParsePartNoCatch(acc, part) ==
    IF acc.raised # "none" THEN acc
    ELSE IF Contains(part, "-") THEN
        LET err == UnpackRangeError(part) IN
        IF err = "none" THEN [acc EXCEPT !.ids = acc.ids \o ExpandRange(part)]
        ELSE [acc EXCEPT !.raised = err]
    ELSE [acc EXCEPT !.ids = Append(acc.ids, part)]

\* Mutant of ParsePart: a numeric literal is normalised through int().
ParsePartNormalizing(acc, part) ==
    IF acc.raised # "none" THEN acc
    ELSE IF Contains(part, "-") THEN
        LET err == UnpackRangeError(part) IN
        IF err = "none" THEN [acc EXCEPT !.ids = acc.ids \o ExpandRange(part)]
        ELSE IF err = "ValueError" THEN [acc EXCEPT !.warnings = Append(acc.warnings, part)]
        ELSE [acc EXCEPT !.raised = err]
    ELSE IF IsInt(part) THEN [acc EXCEPT !.ids = Append(acc.ids, IntToStr(ParseInt(part)))]
    ELSE [acc EXCEPT !.ids = Append(acc.ids, part)]

\* One iteration of "for part in parts" on the accumulated result.
ParsePart(acc, part) ==
    IF acc.raised # "none" THEN acc
    ELSE IF Contains(part, "-") THEN
        LET err == UnpackRangeError(part) IN
        IF err = "none" THEN [acc EXCEPT !.ids = acc.ids \o ExpandRange(part)]
        ELSE IF err = "ValueError" THEN [acc EXCEPT !.warnings = Append(acc.warnings, part)]
        ELSE [acc EXCEPT !.raised = err]
    ELSE [acc EXCEPT !.ids = Append(acc.ids, part)]

RECURSIVE ParseParts(_, _, _)
ParseParts(acc, parts, i) ==
    IF i > Len(parts) THEN acc
    ELSE ParseParts(ParsePart(acc, parts[i]), parts, i + 1)

EmptyParse == [ids |-> <<>>, warnings |-> <<>>, raised |-> "none"]

\* The whole function: ids is the returned list, warnings the arguments of
\* the pushWarning calls in order, raised the exception that escapes.
parse_particelle_input(particella_input) ==
    LET s == RemoveChar(particella_input, " ") IN
    IF Contains(s, ",") THEN ParseParts(EmptyParse, Split(s, ","), 1)
    ELSE IF Contains(s, "-") THEN
        LET err == UnpackRangeError(s) IN
        IF err = "none" THEN [EmptyParse EXCEPT !.ids = ExpandRange(s)]
        ELSE IF err = "ValueError" THEN [EmptyParse EXCEPT !.warnings = <<s>>]
        ELSE [EmptyParse EXCEPT !.raised = err]
    ELSE [EmptyParse EXCEPT !.ids = <<s>>]

(***************************************************************************)
(* Inputs of the parser specification.                                     *)
(***************************************************************************)
SpecAlphabet == {"0", "1", "2", "-", ",", " ", "a"}

StringsUpTo(alphabet, n) == UNION {[1..k -> alphabet] : k \in 0..n}

Example1 == <<"1", ",", "3", ",", "5", "-", "8", ",", "1", "0", ",", "1", "5", "-", "2", "0">>

Example2 == <<"1", "-", "7">>

ParseInputs == StringsUpTo(SpecAlphabet, MaxSpecLen) \cup {Example1, Example2}

StartParse ==
    /\ pIn \in ParseInputs
    /\ pOut = NoValue
    /\ pPc = "ready"

IdleParse ==
    /\ pIn = <<>>
    /\ pOut = NoValue
    /\ pPc = "idle"

ParseCall ==
    /\ pPc = "ready"
    /\ pOut' = parse_particelle_input(pIn)
    /\ pPc' = "done"
    /\ UNCHANGED pIn
    /\ UNCHANGED <<resolveVars, locateVars, runVars, callVars, unitVars>>


(***************************************************************************)
(* Claims about parse_particelle_input, checked under SpecParse.           *)
(***************************************************************************)
\* The comma-separated tokens of a specification, spaces removed.
TokensOf(spec) == Split(RemoveChar(spec, " "), ",")

IsLiteralToken(t) == ~Contains(t, "-")

IsWellFormedRange(t) ==
    /\ Contains(t, "-")
    /\ Len(Split(t, "-")) = 2
    /\ IsInt(Split(t, "-")[1])
    /\ IsInt(Split(t, "-")[2])

RangeLow(t) == ParseInt(Split(t, "-")[1])

RangeHigh(t) == ParseInt(Split(t, "-")[2])

IsAscendingRange(t) == IsWellFormedRange(t) /\ RangeLow(t) <= RangeHigh(t)

IsReverseRange(t) == IsWellFormedRange(t) /\ RangeLow(t) > RangeHigh(t)

IsMalformedRange(t) == Contains(t, "-") /\ ~IsWellFormedRange(t)

\* Number of ids a token of the kinds C3 covers stands for.
ExpansionLen(t) == IF IsLiteralToken(t) THEN 1 ELSE RangeHigh(t) - RangeLow(t) + 1

RECURSIVE ExpansionOffset(_, _)
ExpansionOffset(toks, i) ==
    IF i <= 1 THEN 0
    ELSE ExpansionOffset(toks, i - 1) + ExpansionLen(toks[i - 1])

\* out is the canonical decimal strings of a, a+1, ..., b.
IsAscendingRun(out, a, b) ==
    /\ Len(out) = b - a + 1
    /\ \A k \in 1..Len(out) :
        /\ IsInt(out[k])
        /\ ParseInt(out[k]) = a + k - 1
        /\ (Len(out[k]) > 1 => out[k][1] # "0")
        /\ out[k][1] # "+"

Expected1 ==
    << <<"1">>, <<"3">>, <<"5">>, <<"6">>, <<"7">>, <<"8">>, <<"1", "0">>,
       <<"1", "5">>, <<"1", "6">>, <<"1", "7">>, <<"1", "8">>, <<"1", "9">>, <<"2", "0">> >>

Expected2 == << <<"1">>, <<"2">>, <<"3">>, <<"4">>, <<"5">>, <<"6">>, <<"7">> >>

\* C3: when every comma-separated token is a dash-free literal or a range
\* a-b with integers a <= b, the returned list is the in-order concatenation
\* of the tokens' expansions (a literal yields itself, a-b yields the decimal
\* strings a..b), nothing reordered or deduplicated; a specification with no
\* comma and no dash yields exactly one id; the two worked examples hold.
C3_ParseConcatenation ==
    pPc = "done" =>
        LET toks == TokensOf(pIn)
            total == ExpansionOffset(toks, Len(toks) + 1)
        IN  /\ (\A i \in 1..Len(toks) : IsLiteralToken(toks[i]) \/ IsAscendingRange(toks[i])) =>
                /\ pOut.raised = "none"
                /\ Len(pOut.ids) = total
                /\ \A i \in 1..Len(toks) :
                    LET off == ExpansionOffset(toks, i) IN
                    IF IsLiteralToken(toks[i])
                    THEN pOut.ids[off + 1] = toks[i]
                    ELSE IsAscendingRun(SubSeq(pOut.ids, off + 1, off + ExpansionLen(toks[i])),
                                        RangeLow(toks[i]), RangeHigh(toks[i]))
            /\ (~Contains(pIn, ",") /\ ~Contains(pIn, "-")) => Len(pOut.ids) = 1
            /\ pIn = Example1 => pOut.ids = Expected1
            /\ pIn = Example2 => pOut.ids = Expected2

C3_Witness == pPc = "done" /\ pIn = Example1 /\ pOut.ids = Expected1

\* C4: a malformed range token (a dash, but not exactly two sides that both
\* parse as integers) gives exactly one warning and no id, the other tokens
\* are expanded as if it were absent, and nothing is raised.
C4_MalformedSkipped ==
    pPc = "done" =>
        LET toks == TokensOf(pIn)
            bad == SelectSeq(toks, IsMalformedRange)
            rest == SelectSeq(toks, LAMBDA t : ~IsMalformedRange(t))
        IN  /\ pOut.raised = "none"
            /\ pOut.warnings = bad
            /\ pOut.ids = ParseParts(EmptyParse, rest, 1).ids

C4_Witness ==
    /\ pPc = "done"
    /\ \E i \in 1..Len(TokensOf(pIn)) :
        /\ IsMalformedRange(TokensOf(pIn)[i])
        /\ Len(Split(TokensOf(pIn)[i], "-")) > 2
    /\ Len(pOut.warnings) = 1
    /\ Len(pOut.ids) > 0

\* C5: a range token start-end with start > end contributes no id, no
\* warning and no error, alone or inside a comma-separated list.
C5_ReverseRangeEmpty ==
    pPc = "done" =>
        LET toks == TokensOf(pIn)
            rest == SelectSeq(toks, LAMBDA t : ~IsReverseRange(t))
        IN  /\ pOut.raised = "none"
            /\ \A k \in 1..Len(pOut.warnings) : ~IsReverseRange(pOut.warnings[k])
            /\ pOut.ids = ParseParts(EmptyParse, rest, 1).ids
            /\ (Len(toks) = 1 /\ IsReverseRange(toks[1])) => pOut.ids = <<>>

C5_Witness ==
    /\ pPc = "done"
    /\ pIn = <<"1", ",", "2", "-", "1">>
    /\ pOut.ids = << <<"1">> >>
    /\ pOut.warnings = <<>>

\* Position in the result of the id of the i-th token: the number of ids the
\* tokens before it produce.
IdsBefore(toks, i) == Len(ParseParts(EmptyParse, SubSeq(toks, 1, i - 1), 1).ids)

\* C6 as stated: the id of a dash-free token is the token with only its
\* leading and trailing whitespace removed (inner spaces kept).
C6_Original_TrimOnly ==
    pPc = "done" =>
        LET raw == Split(pIn, ",") IN
        \A i \in 1..Len(raw) :
            IsLiteralToken(raw[i]) =>
                /\ IdsBefore(TokensOf(pIn), i) < Len(pOut.ids)
                /\ pOut.ids[IdsBefore(TokensOf(pIn), i) + 1] = Trim(raw[i])

\* C6 amended: the id of a dash-free token is the token with every space
\* character removed (leading, trailing and inner) and nothing else changed:
\* leading zeros and non-digit characters are kept.
C6_LiteralSpacesRemoved ==
    pPc = "done" =>
        LET raw == Split(pIn, ",") IN
        \A i \in 1..Len(raw) :
            IsLiteralToken(raw[i]) =>
                /\ IdsBefore(TokensOf(pIn), i) < Len(pOut.ids)
                /\ pOut.ids[IdsBefore(TokensOf(pIn), i) + 1] = RemoveChar(raw[i], " ")

C6_Witness ==
    /\ pPc = "done"
    /\ pIn = <<"0", " ", "a", ",", "1">>
    /\ pOut.ids = << <<"0", "a">>, <<"1">> >>


(***************************************************************************)
(* The municipality index (index.parquet): rows of file, comune and        *)
(* denominazione_it, in dataset order.  Codes are unique.                  *)
(***************************************************************************)
None == "None"

CodeBABA == <<"B", "A", "B", "A">>

CodeA001 == <<"A", "0", "0", "1">>

CodeB002 == <<"B", "0", "0", "2">>

IndexRows ==
    << [file |-> "fileBABA", comune |-> CodeBABA, denominazione_it |-> <<"A", "b">>],
       [file |-> "fileA001", comune |-> CodeA001, denominazione_it |-> <<"B", "a", "b", "a">>],
       [file |-> "fileB002", comune |-> CodeB002, denominazione_it |-> <<"B", "b">>] >>

\* WHERE comune = ? OR denominazione_it ILIKE ?   with [comune, f'%{comune}%']
IndexQuery(comune) ==
    SelectSeq(IndexRows,
              LAMBDA r : r.comune = comune
                         \/ ILike(r.denominazione_it, <<"%">> \o comune \o <<"%">>))

\* The "- Codice: ..., Nome: ..." lines pushed for the rows of a result.
ShownCandidates(result) ==
    [i \in 1..Len(result) |-> <<result[i].comune, result[i].denominazione_it>>]

ParquetResult(file, multi, codice, candidates, reset, raised) ==
    [file |-> file, multi |-> multi, codice |-> codice, shown |-> candidates,
     resetCursor |-> reset, raised |-> raised]

\* Mutant of get_parquet_file_list: among several rows the one whose code
\* equals the query is taken.
get_parquet_file_ranked(comune, ioError, codice) ==
    IF ioError THEN ParquetResult(None, FALSE, codice, <<>>, FALSE, "none")
    ELSE
        LET result == IndexQuery(comune)
            exact == SelectSeq(result, LAMBDA r : r.comune = comune)
        IN  IF Len(result) = 0 THEN ParquetResult(None, FALSE, codice, <<>>, FALSE, "none")
            ELSE IF Len(result) > 1 /\ Len(exact) = 0
                 THEN ParquetResult(None, TRUE, codice, ShownCandidates(result), TRUE, "none")
            ELSE IF Len(result) > 1
                 THEN ParquetResult(exact[1].file, FALSE, exact[1].comune, <<>>, FALSE, "none")
            ELSE ParquetResult(result[1].file, FALSE, result[1].comune, <<>>, FALSE, "none")

\* get_parquet_file of the list variant: (file_name, multi flag), the new
\* value of self.codice_comune, the candidates shown, whether the last-result
\* cursor is reset.  An exception of the query is caught inside.
get_parquet_file_list(comune, ioError, codice) ==
    IF ioError THEN ParquetResult(None, FALSE, codice, <<>>, FALSE, "none")
    ELSE
        LET result == IndexQuery(comune) IN
        IF Len(result) = 0 THEN ParquetResult(None, FALSE, codice, <<>>, FALSE, "none")
        ELSE IF Len(result) > 1
             THEN ParquetResult(None, TRUE, codice, ShownCandidates(result), TRUE, "none")
        ELSE ParquetResult(result[1].file, FALSE, result[1].comune, <<>>, FALSE, "none")

\* get_parquet_file of the single/CSV variant: the same, but an exception of
\* the query escapes (try/finally only closes the connection).
get_parquet_file_single(comune, ioError, codice) ==
    IF ioError THEN ParquetResult(None, FALSE, codice, <<>>, FALSE, "Exception")
    ELSE
        LET result == IndexQuery(comune) IN
        IF Len(result) = 0 THEN ParquetResult(None, FALSE, codice, <<>>, FALSE, "none")
        ELSE IF Len(result) > 1
             THEN ParquetResult(None, TRUE, codice, ShownCandidates(result), TRUE, "none")
        ELSE ParquetResult(result[1].file, FALSE, result[1].comune, <<>>, FALSE, "none")

QueryAlphabet == {"A", "a", "B", "b", "0", "%", "_", " "}

ResolveInputs ==
    StringsUpTo(QueryAlphabet, MaxQueryLen)
        \cup {CodeBABA, CodeA001, <<"b", "0", "0", "2">>, <<" ", "a", "0", "0", "1", " ">>}

StartResolve ==
    /\ rVariant \in {"list", "single"}
    /\ rComune \in ResolveInputs
    /\ rIoError \in BOOLEAN
    /\ rOut = NoValue
    /\ rPc = "ready"

IdleResolve ==
    /\ rVariant = "list"
    /\ rComune = <<>>
    /\ rIoError = FALSE
    /\ rOut = NoValue
    /\ rPc = "idle"

\* comune = parameterAsString(...).strip().upper(); get_parquet_file(comune)
ResolveList ==
    /\ rPc = "ready"
    /\ rVariant = "list"
    /\ rOut' = get_parquet_file_list(Upper(Trim(rComune)), rIoError, None)
    /\ rPc' = "done"
    /\ UNCHANGED <<rVariant, rComune, rIoError>>
    /\ UNCHANGED <<parseVars, locateVars, runVars, callVars, unitVars>>

ResolveSingle ==
    /\ rPc = "ready"
    /\ rVariant = "single"
    /\ rOut' = get_parquet_file_single(Upper(Trim(rComune)), rIoError, None)
    /\ rPc' = "done"
    /\ UNCHANGED <<rVariant, rComune, rIoError>>
    /\ UNCHANGED <<parseVars, locateVars, runVars, callVars, unitVars>>

(***************************************************************************)
(* Claims about get_parquet_file, checked under SpecResolve.               *)
(***************************************************************************)
HasWildcard(q) == Contains(q, "%") \/ Contains(q, "_")

\* q occurs in name as a run of consecutive characters, case disregarded.
IsSubstringCI(q, name) ==
    \E i \in 1..(Len(name) + 1) :
        /\ i + Len(q) - 1 <= Len(name)
        /\ SubSeq(Upper(name), i, i + Len(q) - 1) = Upper(q)

\* The rows a query matches: by exact code or by name.  A query holding the
\* LIKE wildcards % or _ is matched as the pattern it is.
MatchingRows(q) ==
    IF HasWildcard(q) THEN IndexQuery(q)
    ELSE SelectSeq(IndexRows, LAMBDA r : r.comune = q \/ IsSubstringCI(q, r.denominazione_it))

InspirePrefix == <<"I", "T", ".", "A", "G", "E", ".", "P", "L", "A", ".">>

InspireId(code, sezione, foglio, particella) ==
    InspirePrefix \o code \o <<sezione>> \o foglio \o <<".">> \o particella

DataRow(code, sezione, foglio, particella, x, y) ==
    [comune |-> code, foglio |-> foglio, particella |-> particella,
     INSPIREID_LOCALID |-> InspireId(code, sezione, foglio, particella),
     x |-> x, y |-> y]

\* A row whose identifier carries one more character of the block after the
\* sheet, so that two rows of one parcel id can differ in their identifiers.
DataRowOfBlock(code, sezione, foglio, block, particella, x, y) ==
    [DataRow(code, sezione, foglio, particella, x, y) EXCEPT
        !.INSPIREID_LOCALID =
            InspirePrefix \o code \o <<sezione>> \o foglio \o <<block>> \o <<".">>
                \o particella]

CodeC003 == <<"C", "0", "0", "3">>

Sheet1 == <<"0", "0", "0", "1">>

Sheet2 == <<"0", "0", "0", "2">>

DatasetRows(parquet_file) ==
    IF parquet_file = "fileA001" THEN
        << DataRow(CodeA001, "_", Sheet1, <<"1">>, 12000001, 42000001),
           DataRow(CodeA001, "_", Sheet1, <<"1">>, 12000002, 42000002),
           DataRow(CodeA001, "A", Sheet1, <<"1">>, 12000003, 42000003),
           DataRow(CodeA001, "_", Sheet1, <<"2">>, 12000004, 42000004),
           DataRow(CodeA001, "_", Sheet1, <<"1", "2">>, 12000005, 42000005),
           DataRow(CodeA001, "_", Sheet2, <<"1">>, 12000006, 42000006),
           DataRow(CodeB002, "_", Sheet1, <<"1">>, 12000008, 42000008) >>
    ELSE IF parquet_file = "fileB002" THEN
        << DataRow(CodeB002, "_", Sheet1, <<"1">>, 12000007, 42000007) >>
    ELSE IF parquet_file = "fileC003" THEN
        << DataRowOfBlock(CodeC003, "A", Sheet1, "0", <<"2">>, 12000011, 42000011),
           DataRowOfBlock(CodeC003, "A", Sheet1, "B", <<"2">>, 12000012, 42000012),
           DataRowOfBlock(CodeC003, "A", Sheet1, "0", <<"1", "0">>, 12000013, 42000013),
           DataRowOfBlock(CodeC003, "_", Sheet1, "0", <<"1">>, 12000014, 42000014),
           DataRowOfBlock(CodeC003, "_", Sheet1, "0", <<"1">>, 12000015, 42000015),
           DataRowOfBlock(CodeC003, "B", Sheet2, "0", <<"3">>, 12000016, 42000016) >>
    ELSE <<>>

\* SUBSTR(s, 16, 1): the character at offset 15, the empty string when s is
\* shorter.
Substr16(s) == IF Len(s) >= 16 THEN <<s[16]>> ELSE <<>>

\* float(r) / 1000000 as integer part and six-digit fraction.
ScaleFactor == 1000000

Decode(r) == [ip |-> r \div ScaleFactor, fp |-> r % ScaleFactor]

Coordinate(r) == <<Decode(r.x), Decode(r.y)>>

\* The rows the query of get_coordinates selects: comune = ?, foglio LIKE ?,
\* particella LIKE ? and, when a section is given, SUBSTR(..., 16, 1) = ?.
CoordinateRows(parquet_file, comune, foglio, particella, sezione) ==
    SelectSeq(DatasetRows(parquet_file),
              LAMBDA r : /\ r.comune = comune
                         /\ Like(r.foglio, foglio)
                         /\ Like(r.particella, particella)
                         /\ (Trim(sezione) # <<>> => Substr16(r.INSPIREID_LOCALID) = sezione))

\* The None a lookup returns; a list is returned with isNone FALSE.
NoCoordinates == [isNone |-> TRUE, coords |-> <<>>]

\* get_coordinates of the list variant: the list of (x, y), or None when no
\* row matches or the query raises (the exception is caught inside).
get_coordinates_list(comune, foglio, particella, parquet_file, sezione, ioError) ==
    IF ioError THEN NoCoordinates
    ELSE
        LET result == CoordinateRows(parquet_file, comune, foglio, particella, sezione) IN
        IF Len(result) > 0
        THEN [isNone |-> FALSE, coords |-> [k \in 1..Len(result) |-> Coordinate(result[k])]]
        ELSE NoCoordinates

IdAlphabet == {"1", "2", "a", "%", "_"}

StartLocate ==
    /\ cComune \in {CodeA001, CodeB002}
    /\ cFoglio \in {<<"1">>, <<"2">>, <<"0", "0", "0", "1">>, <<" ", "1">>}
    /\ cParticella \in StringsUpTo(IdAlphabet, MaxIdLen)
    /\ cSezione \in {<<>>, <<"a">>, <<"_">>}
    /\ cIoError \in BOOLEAN
    /\ cOut = NoValue
    /\ cPc = "ready"

IdleLocate ==
    /\ cComune = <<>>
    /\ cFoglio = <<>>
    /\ cParticella = <<>>
    /\ cSezione = <<>>
    /\ cIoError = FALSE
    /\ cOut = NoValue
    /\ cPc = "idle"

\* foglio = ...strip().zfill(4); sezione = ...strip().upper();
\* get_coordinates(self.codice_comune, foglio, particella, file_name, feedback, sezione)
LocateCall ==
    /\ cPc = "ready"
    /\ cOut' = get_coordinates_list(cComune, ZFill4(Trim(cFoglio)), cParticella,
                                    "fileA001", Upper(Trim(cSezione)), cIoError)
    /\ cPc' = "done"
    /\ UNCHANGED <<cComune, cFoglio, cParticella, cSezione, cIoError>>
    /\ UNCHANGED <<parseVars, resolveVars, runVars, callVars, unitVars>>

(***************************************************************************)
(* Claims about get_coordinates, checked under SpecLocate.                 *)
(***************************************************************************)
\* The rows the claim names: equal comune, equal normalized sheet, equal
\* parcel id and, with a section, the section character at offset 15.
ExactRows(parquet_file, comune, foglio, particella, sezione) ==
    SelectSeq(DatasetRows(parquet_file),
              LAMBDA r : /\ r.comune = comune
                         /\ r.foglio = foglio
                         /\ r.particella = particella
                         /\ (sezione # <<>> =>
                                (Len(r.INSPIREID_LOCALID) > 15
                                 /\ <<r.INSPIREID_LOCALID[16]>> = sezione)))

ExactCoordinates ==
    LET rows == ExactRows("fileA001", cComune, ZFill4(Trim(cFoglio)), cParticella,
                          Upper(Trim(cSezione)))
    IN  [k \in 1..Len(rows) |-> Coordinate(rows[k])]

\* C10 as stated: a completed lookup returns the coordinates of exactly the
\* rows with equal comune, sheet, parcel id (and section), in dataset order,
\* for every id the parser can emit.
C10_ExactlyMatchingRows ==
    (cPc = "done" /\ ~cIoError) =>
        /\ cOut.isNone = (ExactCoordinates = <<>>)
        /\ cOut.coords = ExactCoordinates

(***************************************************************************)
(* The feature service (WFS CP:CadastralParcel): the features whose        *)
(* geometry meets the bounding box of the buffer around a seed.            *)
(***************************************************************************)
Ref(code, sezione, foglio, particella) ==
    code \o <<sezione>> \o foglio \o <<".">> \o particella

WfsFeature(ref, geom, valid, area) ==
    [NATIONALCADASTRALREFERENCE |-> ref, geom |-> geom, valid |-> valid, area |-> area]

FeatA1 == WfsFeature(Ref(CodeA001, "_", Sheet1, <<"1">>), "geomA1", TRUE, 120)

FeatA2 == WfsFeature(Ref(CodeA001, "_", Sheet1, <<"2">>), "geomA2", TRUE, 80)

FeatA1secA == WfsFeature(Ref(CodeA001, "A", Sheet1, <<"1">>), "geomA1secA", TRUE, 60)

FeatA12bad == WfsFeature(Ref(CodeA001, "_", Sheet1, <<"1", "2">>), "geomA12", FALSE, 40)

FeatB1 == WfsFeature(Ref(CodeB002, "_", Sheet1, <<"1">>), "geomB1", TRUE, 30)

\* The response to the request around a seed; the seeds of the dataset are
\* told apart by the fraction of x.
WfsResponse(coordinates) ==
    LET k == coordinates[1].fp IN
    IF k = 1 THEN <<FeatA1>>
    ELSE IF k = 2 THEN <<FeatA1, FeatA2>>
    ELSE IF k = 3 THEN <<FeatA1secA>>
    ELSE IF k = 4 THEN <<FeatA2>>
    ELSE IF k = 5 THEN <<FeatA12bad, FeatA2>>
    ELSE IF k = 7 THEN <<FeatB1>>
    ELSE <<>>

(***************************************************************************)
(* get_particella_wfs                                                      *)
(***************************************************************************)
\* The components taken from ref_catastale.
RefAdmin(ref) ==
    LET parts == Split(ref, ".") IN
    IF Len(parts) > 0 /\ Len(parts[1]) >= 4 THEN SubSeq(parts[1], 1, 4) ELSE <<>>

RefSezione(ref) ==
    LET parts == Split(ref, ".") IN
    IF Len(parts[1]) >= 5 THEN SubSeq(parts[1], 5, 5) ELSE <<>>

RefFoglio(ref) ==
    LET parts == Split(ref, ".") IN
    IF Len(parts[1]) >= 9 THEN SubSeq(parts[1], 6, 9) ELSE <<>>

RefParticella(ref) ==
    LET parts == Split(ref, ".") IN
    IF Len(parts) > 1 THEN parts[Len(parts)] ELSE <<>>

\* The feature handed to sink.addFeature, with the id the sink gives it.
NewFeature(feat, area, fid) ==
    [NATIONALCADASTRALREFERENCE |-> feat.NATIONALCADASTRALREFERENCE,
     ADMIN |-> RefAdmin(feat.NATIONALCADASTRALREFERENCE),
     SEZIONE |-> RefSezione(feat.NATIONALCADASTRALREFERENCE),
     FOGLIO |-> RefFoglio(feat.NATIONALCADASTRALREFERENCE),
     PARTICELLA |-> RefParticella(feat.NATIONALCADASTRALREFERENCE),
     AREA |-> area, geom |-> feat.geom, fid |-> fid]

RefsOf(features) == {features[k].NATIONALCADASTRALREFERENCE : k \in 1..Len(features)}

\* What the environment does to one candidate: the reprojection succeeds
\* ("ok"), returns an error code ("err") or raises ("exc"); addFeature
\* accepts, rejects or raises.
Fates == [xform : {"ok", "err", "exc"}, add : {"accept", "reject", "raise"}]

\* Mutant of AlreadyPresent: the guard on existing_refs is missing.
AlreadyPresentNever(ref, existing_refs) == FALSE

\* if ref_catastale in existing_refs: continue
AlreadyPresent(ref, existing_refs) == ref \in existing_refs

\* Mutant of GeometryUsable: the geometry is not looked at.
GeometryUsableAlways(feat) == TRUE

\* The negation of "not geom or not geom.isGeosValid()"; a candidate without
\* geometry and one whose geometry is not valid both have valid = FALSE.
GeometryUsable(feat) == feat.valid

\* Mutant of AreaOf: the area of the geometry is kept when the reprojection
\* failed.
AreaOfUnprojected(feat, fate) == feat.area

\* area = geom_copy.area() after a reprojection that returned 0; area = 0
\* after one that returned an error code or raised.
AreaOf(feat, fate) == IF fate.xform = "ok" THEN feat.area ELSE 0

\* Mutant of SinkAccepts: whatever addFeature returns is taken for an
\* acceptance.
SinkAcceptsUnlessRaised(fate) == fate.add # "raise"

\* if sink.addFeature(new_feat)
SinkAccepts(fate) == fate.add = "accept"

\* One iteration of "for feat in features".
ProcessFeature(acc, feat, fate) ==
    LET ref == feat.NATIONALCADASTRALREFERENCE IN
    IF AlreadyPresent(ref, acc.existing_refs) THEN acc
    ELSE IF ~GeometryUsable(feat)
         THEN [acc EXCEPT !.warnings = Append(@, <<"Geometria non valida", ref>>)]
    ELSE
        LET area == AreaOf(feat, fate)
            warned ==
                IF fate.xform = "err"
                THEN Append(acc.warnings, <<"Errore nella trasformazione", ref>>)
                ELSE IF fate.xform = "exc"
                THEN Append(acc.warnings, <<"Errore nel calcolo dell'area", ref>>)
                ELSE acc.warnings
        IN  IF fate.add = "raise"
            THEN [acc EXCEPT !.warnings = Append(warned, <<"Errore nell'elaborazione", ref>>)]
            ELSE IF SinkAccepts(fate)
            THEN [acc EXCEPT
                    !.sink = Append(@, NewFeature(feat, area, Len(acc.sink) + 1)),
                    !.features_added = @ + 1,
                    !.existing_refs = @ \cup {ref},
                    !.last_geometry = feat.geom,
                    !.last_feature_id = Len(acc.sink) + 1,
                    !.warnings = warned]
            ELSE [acc EXCEPT !.warnings = Append(warned, <<"Impossibile aggiungere", ref>>)]

RECURSIVE ProcessFeatures(_, _, _, _)
ProcessFeatures(acc, features, fates, k) ==
    IF k > Len(features) THEN acc
    ELSE ProcessFeatures(ProcessFeature(acc, features[k], fates[k]), features, fates, k + 1)

\* Mutant of get_particella_wfs: the request fails after the candidates were
\* processed, and what was added stays in the output.
get_particella_wfs_partial(coordinates, target, layer_refs, fid, wfs, fates) ==
    LET entry == [sink |-> target, existing_refs |-> layer_refs, features_added |-> 0,
                  last_geometry |-> None, last_feature_id |-> fid, warnings |-> <<>>]
        features == WfsResponse(coordinates)
        out == ProcessFeatures(entry, features, fates, 1)
    IN  [success |-> wfs = "ok",
         last_geometry |-> IF wfs = "ok" THEN out.last_geometry ELSE None,
         sink |-> out.sink, last_feature_id |-> out.last_feature_id,
         features_added |-> out.features_added, existing_entry |-> layer_refs,
         existing_exit |-> out.existing_refs,
         returned |-> [k \in 1..Len(features) |-> features[k].NATIONALCADASTRALREFERENCE],
         warnings |-> out.warnings]

\* The call get_particella_wfs(x, y, sink, input_layer, feedback).  wfs is
\* what the service does ("ok", "invalid": the layer is not valid, "raise":
\* the request raises), layer_refs the references read from input_layer
\* (the empty set without one), fid the current self.last_feature_id.
get_particella_wfs(coordinates, target, layer_refs, fid, wfs, fates) ==
    LET entry == [sink |-> target, existing_refs |-> layer_refs, features_added |-> 0,
                  last_geometry |-> None, last_feature_id |-> fid, warnings |-> <<>>]
        features == WfsResponse(coordinates)
    IN  IF wfs # "ok"
        THEN [success |-> FALSE, last_geometry |-> None, sink |-> target,
              last_feature_id |-> fid, features_added |-> 0, existing_entry |-> {},
              existing_exit |-> {}, returned |-> <<>>, warnings |-> <<>>]
        ELSE
            LET out == ProcessFeatures(entry, features, fates, 1) IN
            [success |-> TRUE, last_geometry |-> out.last_geometry, sink |-> out.sink,
             last_feature_id |-> out.last_feature_id, features_added |-> out.features_added,
             existing_entry |-> layer_refs, existing_exit |-> out.existing_refs,
             returned |-> [k \in 1..Len(features) |-> features[k].NATIONALCADASTRALREFERENCE],
             warnings |-> out.warnings]

\* The choices of the environment for the candidates of one response; a
\* candidate that is skipped before the reprojection has nothing chosen.
NoFault == [xform |-> "ok", add |-> "accept"]

FaultCount(fates) == Cardinality({k \in DOMAIN fates : fates[k] # NoFault})

FatesFor(coordinates, layer_refs, budget) ==
    LET features == WfsResponse(coordinates) IN
    {f \in [1..Len(features) -> Fates] :
        /\ FaultCount(f) <= budget
        /\ \A k \in 1..Len(features) :
              (~features[k].valid \/ features[k].NATIONALCADASTRALREFERENCE \in layer_refs)
                  => f[k] = NoFault}

NoFates(coordinates) == [k \in 1..Len(WfsResponse(coordinates)) |-> NoFault]

\* Whether the environment may still fail a query or a request.
IoChoices == IF faults < MaxFaults THEN BOOLEAN ELSE {FALSE}

WfsChoices == IF faults < MaxFaults THEN {"ok", "invalid", "raise"} ELSE {"ok"}

IoCost(ioError) == IF ioError THEN 1 ELSE 0

\* The features a layer can hold when a call begins, and the seeds of the
\* datasets.
StoredFeatures == <<FeatA1, FeatA2, FeatA1secA, FeatA12bad, FeatB1>>

SinkOf(chosen) ==
    LET sel == SelectSeq([k \in 1..Len(StoredFeatures) |-> k], LAMBDA k : k \in chosen)
    IN  [n \in 1..Len(sel) |->
            NewFeature(StoredFeatures[sel[n]], StoredFeatures[sel[n]].area, n)]

SeedInputs ==
    {Coordinate(DatasetRows("fileA001")[k]) : k \in 1..Len(DatasetRows("fileA001"))}
        \cup {Coordinate(DatasetRows("fileB002")[k]) : k \in 1..Len(DatasetRows("fileB002"))}

StartFetch ==
    /\ wCoordinates \in SeedInputs
    /\ wSink \in {SinkOf(chosen) : chosen \in SUBSET (1..Len(StoredFeatures))}
    /\ wHasLayer \in BOOLEAN
    /\ wWfs \in {"ok", "invalid", "raise"}
    /\ wFates \in (IF wWfs = "ok" THEN [1..Len(WfsResponse(wCoordinates)) -> Fates]
                    ELSE {NoFates(wCoordinates)})
    /\ wOut = NoValue
    /\ wPc = "ready"

IdleFetch ==
    /\ wCoordinates = <<>>
    /\ wSink = <<>>
    /\ wHasLayer = FALSE
    /\ wWfs = "ok"
    /\ wFates = <<>>
    /\ wOut = NoValue
    /\ wPc = "idle"

\* One call get_particella_wfs(x, y, sink, input_layer, feedback).
FetchCall ==
    /\ wPc = "ready"
    /\ wOut' = get_particella_wfs(wCoordinates, wSink,
                                  IF wHasLayer THEN RefsOf(wSink) ELSE {}, None,
                                  wWfs, wFates)
    /\ wPc' = "done"
    /\ UNCHANGED <<wCoordinates, wSink, wHasLayer, wWfs, wFates>>
    /\ UNCHANGED <<parseVars, resolveVars, locateVars, runVars, unitVars>>

(***************************************************************************)
(* get_all_particelle                                                      *)
(***************************************************************************)
\* The order of ORDER BY on strings: character codes, shorter prefix first.
CharOrder == <<"%", "0", "1", "2", "3", "4", "5", "6", "7", "8", "9", "A", "B", "_", "a", "b">>

CharRank(c) == CHOOSE r \in 1..Len(CharOrder) : CharOrder[r] = c

RECURSIVE LexLeq(_, _)
LexLeq(a, b) ==
    IF Len(a) = 0 THEN TRUE
    ELSE IF Len(b) = 0 THEN FALSE
    ELSE IF a[1] = b[1] THEN LexLeq(Tail(a), Tail(b))
    ELSE CharRank(a[1]) < CharRank(b[1])

\* The first columns of a set of distinct result rows, ordered by them.
RECURSIVE OrderedFirsts(_)
OrderedFirsts(rows) ==
    IF rows = {} THEN <<>>
    ELSE LET m == CHOOSE r \in rows : \A q \in rows : LexLeq(r[1], q[1])
         IN  <<m[1]>> \o OrderedFirsts(rows \ {m})

\* get_all_particelle: SELECT DISTINCT particella [, INSPIREID_LOCALID] ...
\* ORDER BY particella, the first column of every row; [] when the query
\* raises or selects nothing.
get_all_particelle(comune, foglio, parquet_file, sezione, ioError) ==
    IF ioError THEN <<>>
    ELSE
        LET all == DatasetRows(parquet_file)
            hit == SelectSeq(all, LAMBDA r : r.comune = comune /\ Like(r.foglio, foglio))
            hitSez == SelectSeq(hit, LAMBDA r : Substr16(r.INSPIREID_LOCALID) = sezione)
        IN  IF Trim(sezione) # <<>>
            THEN OrderedFirsts({<<hitSez[k].particella, hitSez[k].INSPIREID_LOCALID>> :
                                    k \in 1..Len(hitSez)})
            ELSE OrderedFirsts({<<hit[k].particella>> : k \in 1..Len(hit)})

\* The file the index names for a municipality code.
FileOf(code) ==
    IF code = CodeA001 THEN "fileA001"
    ELSE IF code = CodeB002 THEN "fileB002"
    ELSE "fileC003"

StartAll ==
    /\ cComune \in {CodeA001, CodeB002, CodeC003}
    /\ cFoglio \in {<<"1">>, <<"2">>, <<"3">>, <<"0", "0", "0", "1">>, <<" ", "1">>, <<"_">>}
    /\ cParticella = <<>>
    /\ cSezione \in {<<>>, <<" ">>, <<"a">>, <<"b">>, <<"_">>}
    /\ cIoError \in BOOLEAN
    /\ cOut = NoValue
    /\ cPc = "ready"

\* foglio = ...strip().zfill(4); sezione = ...strip().upper();
\* get_all_particelle(self.codice_comune, foglio, file_name, feedback, sezione)
AllCall ==
    /\ cPc = "ready"
    /\ cOut' = [isNone |-> FALSE,
                coords |-> get_all_particelle(cComune, ZFill4(Trim(cFoglio)), FileOf(cComune),
                                              Upper(Trim(cSezione)), cIoError)]
    /\ cPc' = "done"
    /\ UNCHANGED <<cComune, cFoglio, cParticella, cSezione, cIoError>>
    /\ UNCHANGED <<parseVars, resolveVars, runVars, callVars, unitVars>>

(***************************************************************************)
(* processAlgorithm of the list variant                                    *)
(***************************************************************************)
\* The normalized inputs of the current input: the parameters, or the
\* columns of the current CSV row.
Comune == Upper(Trim(IF variant = "csv" THEN csvRows[idx].COMUNE ELSE inComune))

Foglio == ZFill4(Trim(IF variant = "csv" THEN csvRows[idx].FOGLIO ELSE inFoglio))

Sezione == Upper(Trim(inSezione))

ParticellaInput == Trim(IF variant = "csv" THEN csvRows[idx].PARTICELLA ELSE inParticella)

\* try: <query> finally: con.close(): the connection opened for the query is
\* closed whether the query raised or not.
ClosedInFinally(open, raised) == open

\* con.close() after the query without a finally (the expression function):
\* when the query raises the close is not executed, and the connection stays
\* open until the object is collected.
ClosedAfterQuery(open, raised) == IF raised THEN {open, open + 1} ELSE {open}

HasLayer == layerKind # "new"

DestId == IF HasLayer THEN "input_layer" ELSE "output"

\* The references read from input_layer.getFeatures() by a fetch: the list
\* variant writes to the provider of that layer, so they are those of sink.
ListLayerRefs == IF HasLayer THEN RefsOf(sink) ELSE {}

\* Mutant of ResolveStops: the run goes on whatever the lookup returned.
ResolveStopsNever(result) == FALSE

\* if not result[0]: ... return
ResolveStops(result) == result.file = None

Resolution(result, ioError) ==
    IF result.raised # "none" \/ ioError THEN "error"
    ELSE IF result.file # None THEN "ok"
    ELSE IF result.multi THEN "ambiguous"
    ELSE "notfound"

\* Lines 152-212: the cursor is reset, the layer is put in update or edit
\* mode, or the output sink is created (and the run raises without one).
ListBegin ==
    /\ pc = "start"
    /\ variant = "list"
    /\ last_geometry' = None
    /\ last_layer_id' = None
    /\ last_feature_id' = None
    /\ \E sinkCreated \in BOOLEAN :
        /\ pc' = IF ~HasLayer /\ ~sinkCreated THEN "raised" ELSE "resolve"
        /\ editMode' = IF layerKind = "gpkg" THEN "update"
                       ELSE IF layerKind = "shp" THEN "editing"
                       ELSE "none"
    /\ UNCHANGED <<inputVars, loopVars, seedVars, resolveStateVars, fetchVars, canceled, lookups, faults>>
    /\ UNCHANGED perInputVars
    /\ UNCHANGED connections
    /\ UNCHANGED <<parseVars, resolveVars, locateVars, callVars, unitVars>>

\* Lines 214-226.
ListResolve ==
    /\ pc = "resolve"
    /\ variant = "list"
    /\ \E ioError \in IoChoices :
        LET result == get_parquet_file_list(Comune, ioError, codice_comune) IN
        /\ faults' = faults + IoCost(ioError)
        /\ connections' = ClosedInFinally(connections, ioError)
        /\ codice_comune' = result.codice
        /\ shown' = result.shown
        /\ resolution' = Resolution(result, ioError)
        /\ last_geometry' = IF result.resetCursor THEN None ELSE last_geometry
        /\ last_layer_id' = IF result.resetCursor THEN None ELSE last_layer_id
        /\ IF ResolveStops(result)
           THEN pc' = "done" /\ UNCHANGED file_name
           ELSE pc' = "prepare" /\ file_name' = result.file
    /\ UNCHANGED <<inputVars, editMode, last_feature_id, loopVars, seedVars, fetchVars,
                   canceled, lookups>>
    /\ UNCHANGED perInputVars
    /\ UNCHANGED <<parseVars, resolveVars, locateVars, callVars, unitVars>>

\* Lines 231-249: the list of parcel ids, from the dataset or from the parser.
ListPrepare ==
    /\ pc = "prepare"
    /\ variant = "list"
    /\ \E ioError \in (IF inAll THEN IoChoices ELSE {FALSE}) :
        LET ids == IF inAll
                   THEN get_all_particelle(codice_comune, Foglio, file_name, Sezione, ioError)
                   ELSE parse_particelle_input(ParticellaInput).ids
        IN  /\ particelle_da_cercare' = ids
            /\ pc' = IF inAll /\ ids = <<>> THEN "done" ELSE "loop"
            /\ faults' = faults + IoCost(ioError)
            /\ connections' = ClosedInFinally(connections, ioError)
    /\ lookups' = IF inAll THEN lookups + 1 ELSE lookups
    /\ loop_i' = 0
    /\ particelle_non_trovate' = <<>>
    /\ particelle_trovate' = 0
    /\ UNCHANGED <<inputVars, editMode, cursorVars, progress, seedVars, resolveStateVars,
                   fetchVars, canceled>>
    /\ UNCHANGED perInputVars
    /\ UNCHANGED <<parseVars, resolveVars, locateVars, callVars, unitVars>>

\* Mutant of NotFoundList: an id already listed is not listed again.
NotFoundListUnique(list, particella) ==
    IF \E n \in 1..Len(list) : list[n] = particella THEN list ELSE Append(list, particella)

\* particelle_non_trovate.append(particella)
NotFoundList(list, particella) == Append(list, particella)

\* Mutant of AfterNoSeeds: a parcel id without seeds ends the loop.
AfterNoSeedsAbort == "summary"

\* Line 266, "continue": the loop goes on with the next parcel id.
AfterNoSeeds == "loop"

\* Mutant of Progress: the index is counted from 1.
ProgressFromOne(position, total) == ((position + 1) * 100) \div total

\* progress = int((i / total_particelle) * 100)
Progress(position, total) == (position * 100) \div total

\* Mutant of isCanceled: the poll never sees the cancellation.
isCanceledNever == FALSE

\* Line 253, feedback.isCanceled() at the start of an iteration.
isCanceled == canceled

\* Lines 252-268: one parcel id is taken; its seeds are looked up.
ListLookup ==
    /\ pc = "loop"
    /\ variant = "list"
    /\ loop_i < Len(particelle_da_cercare)
    /\ ~isCanceled
    /\ progress' = Progress(loop_i, Len(particelle_da_cercare))
    /\ lookups' = lookups + 1
    /\ \E ioError \in IoChoices :
        LET particella == particelle_da_cercare[loop_i + 1]
            res == get_coordinates_list(codice_comune, Foglio, particella, file_name,
                                        Sezione, ioError)
        IN  /\ faults' = faults + IoCost(ioError)
            /\ connections' = ClosedInFinally(connections, ioError)
            /\ lookupLog' = Append(lookupLog,
                                   [parcel |-> loop_i, particella |-> particella,
                                    outcome |-> IF ioError THEN "failed"
                                                ELSE IF res.isNone THEN "none" ELSE "rows",
                                    seeds |-> Len(res.coords)])
            /\ IF res.isNone
               THEN /\ particelle_non_trovate' = NotFoundList(particelle_non_trovate, particella)
                    /\ loop_i' = loop_i + 1
                    /\ pc' = AfterNoSeeds
                    /\ UNCHANGED seedVars
               ELSE /\ coordinates_list' = res.coords
                    /\ seed_j' = 1
                    /\ found' = FALSE
                    /\ loc_last_geometry' = None
                    /\ pc' = "seeds"
                    /\ UNCHANGED <<particelle_non_trovate, loop_i>>
    /\ UNCHANGED <<inputVars, editMode, cursorVars, particelle_da_cercare, particelle_trovate,
                   resolveStateVars, sink, fetchLog, lastFetch, canceled>>
    /\ UNCHANGED perInputVars
    /\ UNCHANGED <<parseVars, resolveVars, locateVars, callVars, unitVars>>

\* Lines 253-254: the loop is left when the poll sees the cancellation.
ListCancelBreak ==
    /\ pc = "loop"
    /\ variant = "list"
    /\ loop_i < Len(particelle_da_cercare)
    /\ isCanceled
    /\ pc' = "summary"
    /\ UNCHANGED <<inputVars, editMode, cursorVars, loopVars, seedVars, resolveStateVars,
                   fetchVars, canceled, lookups, faults>>
    /\ UNCHANGED perInputVars
    /\ UNCHANGED connections
    /\ UNCHANGED <<parseVars, resolveVars, locateVars, callVars, unitVars>>

\* Line 252: the list is exhausted.
ListLoopEnd ==
    /\ pc = "loop"
    /\ variant = "list"
    /\ loop_i = Len(particelle_da_cercare)
    /\ pc' = "summary"
    /\ UNCHANGED <<inputVars, editMode, cursorVars, loopVars, seedVars, resolveStateVars,
                   fetchVars, canceled, lookups, faults>>
    /\ UNCHANGED perInputVars
    /\ UNCHANGED connections
    /\ UNCHANGED <<parseVars, resolveVars, locateVars, callVars, unitVars>>

\* What one call of get_particella_wfs was given and what it returned.
FetchRecord(coordinates, target, r) ==
    [coordinates |-> coordinates, success |-> r.success, last_geometry |-> r.last_geometry,
     features_added |-> r.features_added, existing_entry |-> r.existing_entry,
     returned |-> r.returned, warnings |-> r.warnings,
     sink_growth |-> Len(r.sink) - Len(target)]

\* Mutant of NextSeed: a failed call ends the loop over the seeds.
NextSeedAbort(position, r, total) == IF r.success THEN position + 1 ELSE total + 1

\* for coordinates in coordinates_list: the next seed, whatever the call gave.
NextSeed(position, r, total) == position + 1

\* Mutant of SeedFound: a call that succeeds marks the parcel id as found.
SeedFoundOnSuccess(r) == r.success

\* if current_success and current_geometry
SeedFound(r) == r.success /\ r.last_geometry # None

\* Lines 270-278: one seed is fetched.
ListFetch ==
    /\ pc = "seeds"
    /\ variant = "list"
    /\ seed_j <= Len(coordinates_list)
    /\ \E wfs \in WfsChoices :
       \E fates \in (IF wfs = "ok"
                     THEN FatesFor(coordinates_list[seed_j], ListLayerRefs, MaxFaults - faults)
                     ELSE {NoFates(coordinates_list[seed_j])}) :
        LET coordinates == coordinates_list[seed_j]
            r == get_particella_wfs(coordinates, sink, ListLayerRefs, last_feature_id,
                                    wfs, fates)
        IN  /\ faults' = faults + (IF wfs = "ok" THEN FaultCount(fates) ELSE 1)
            /\ sink' = r.sink
            /\ last_feature_id' = r.last_feature_id
            /\ found' = IF SeedFound(r) THEN TRUE ELSE found
            /\ loc_last_geometry' = IF SeedFound(r) THEN r.last_geometry ELSE loc_last_geometry
            /\ fetchLog' = Append(fetchLog, [parcel |-> loop_i, seed |-> seed_j,
                                             coordinates |-> coordinates,
                                             success |-> r.success,
                                             added |-> r.features_added])
            /\ lastFetch' = FetchRecord(coordinates, sink, r)
            /\ seed_j' = NextSeed(seed_j, r, Len(coordinates_list))
    /\ UNCHANGED <<inputVars, pc, editMode, last_geometry, last_layer_id, loopVars,
                   coordinates_list, resolveStateVars, canceled, lookups>>
    /\ fetches' = fetches + 1
    /\ UNCHANGED <<idx, fcResult, sinkAtInput>>
    /\ UNCHANGED lookupLog
    /\ UNCHANGED connections
    /\ UNCHANGED <<parseVars, resolveVars, locateVars, callVars, unitVars>>

\* Lines 280-285: the parcel id is counted as found or recorded as not found.
ListEndParcel ==
    /\ pc = "seeds"
    /\ variant = "list"
    /\ seed_j > Len(coordinates_list)
    /\ IF found
       THEN /\ particelle_trovate' = particelle_trovate + 1
            /\ last_geometry' = loc_last_geometry
            /\ last_layer_id' = DestId
            /\ UNCHANGED particelle_non_trovate
       ELSE /\ particelle_non_trovate' =
                    NotFoundList(particelle_non_trovate, particelle_da_cercare[loop_i + 1])
            /\ UNCHANGED <<particelle_trovate, last_geometry, last_layer_id>>
    /\ loop_i' = loop_i + 1
    /\ pc' = "loop"
    /\ UNCHANGED <<inputVars, editMode, last_feature_id, particelle_da_cercare, progress,
                   seedVars, resolveStateVars, fetchVars, canceled, lookups, faults>>
    /\ UNCHANGED perInputVars
    /\ UNCHANGED connections
    /\ UNCHANGED <<parseVars, resolveVars, locateVars, callVars, unitVars>>

\* Lines 287-308: the summary, then the layer leaves update or edit mode.
ListFinalize ==
    /\ pc = "summary"
    /\ variant = "list"
    /\ editMode' = IF ~HasLayer THEN editMode
                   ELSE IF layerKind = "gpkg" THEN "left"
                   ELSE IF particelle_trovate > 0 THEN "committed"
                   ELSE "rolledback"
    /\ pc' = "done"
    /\ UNCHANGED <<inputVars, cursorVars, loopVars, seedVars, resolveStateVars, fetchVars,
                   canceled, lookups, faults>>
    /\ UNCHANGED perInputVars
    /\ UNCHANGED connections
    /\ UNCHANGED <<parseVars, resolveVars, locateVars, callVars, unitVars>>

\* The user cancels while the run is under way.
Cancel ==
    /\ pc \in {"resolve", "prepare", "loop", "lookup", "seeds"}
    /\ variant \in {"list", "testone"}
    /\ ~canceled
    /\ canceled' = TRUE
    /\ UNCHANGED <<inputVars, pc, editMode, cursorVars, loopVars, seedVars, resolveStateVars,
                   fetchVars, lookups, faults>>
    /\ UNCHANGED perInputVars
    /\ UNCHANGED connections
    /\ UNCHANGED <<parseVars, resolveVars, locateVars, callVars, unitVars>>

(***************************************************************************)
(* processAlgorithm of the single/CSV variant                              *)
(***************************************************************************)
\* get_coordinates of the single/CSV variant: no section filter, and an
\* exception of the query escapes to the caller.
get_coordinates_single(comune, foglio, particella, parquet_file, ioError) ==
    IF ioError THEN [isNone |-> TRUE, coords |-> <<>>, raised |-> TRUE]
    ELSE
        LET result == CoordinateRows(parquet_file, comune, foglio, particella, <<>>) IN
        IF Len(result) > 0
        THEN [isNone |-> FALSE, raised |-> FALSE,
              coords |-> [k \in 1..Len(result) |-> Coordinate(result[k])]]
        ELSE [isNone |-> TRUE, coords |-> <<>>, raised |-> FALSE]

\* The references read from input_layer by a fetch: the CSV loop passes None
\* as input_layer, and the sink is never the input layer.
SingleLayerRefs == IF variant = "single" /\ HasLayer THEN RefsOf(layerInit) ELSE {}

\* Where the run goes when an input is finished: "continue" in the CSV loop,
\* the return otherwise.
AfterInput == IF variant = "csv" THEN "rows" ELSE "done"

\* The sink is created; with no CSV the municipality must not be empty.
SingleBegin ==
    /\ pc = "start"
    /\ variant \in {"single", "csv"}
    /\ \E sinkCreated \in BOOLEAN :
        pc' = IF ~sinkCreated THEN "raised"
              ELSE IF variant = "csv" THEN "rows"
              ELSE IF Comune = <<>> THEN "raised"
              ELSE "resolve"
    /\ UNCHANGED <<inputVars, editMode, cursorVars, loopVars, seedVars, resolveStateVars,
                   fetchVars, canceled, lookups, faults, perInputVars>>
    /\ UNCHANGED connections
    /\ UNCHANGED <<parseVars, resolveVars, locateVars, callVars, unitVars>>

\* for idx, row in enumerate(reader): the next row is taken, or the loop ends.
\* The three columns are read and stripped before the try of the row: a line
\* with fewer fields has None in the missing ones, and None.strip() raises
\* out of processAlgorithm.
CsvNextRow ==
    /\ pc = "rows"
    /\ variant = "csv"
    /\ IF idx < Len(csvRows)
       THEN /\ idx' = idx + 1
            /\ pc' = IF csvRows[idx + 1].complete THEN "resolve" ELSE "raised"
            /\ resolution' = "none"
            /\ lookups' = 0
            /\ fetches' = 0
            /\ sinkAtInput' = sink
       ELSE /\ pc' = "done"
            /\ UNCHANGED <<idx, resolution, lookups, fetches, sinkAtInput>>
    /\ UNCHANGED <<inputVars, editMode, cursorVars, loopVars, seedVars, codice_comune,
                   file_name, shown, fetchVars, canceled, faults, fcResult>>
    /\ UNCHANGED connections
    /\ UNCHANGED <<parseVars, resolveVars, locateVars, callVars, unitVars>>

\* result = self.get_parquet_file(comune, feedback); if not result[0]: ...
SingleResolve ==
    /\ pc = "resolve"
    /\ variant \in {"single", "csv"}
    /\ \E ioError \in IoChoices :
        LET result == get_parquet_file_single(Comune, ioError, codice_comune) IN
        /\ faults' = faults + IoCost(ioError)
        /\ connections' = ClosedInFinally(connections, ioError)
        /\ codice_comune' = result.codice
        /\ shown' = result.shown
        /\ resolution' = Resolution(result, ioError)
        /\ last_geometry' = IF result.resetCursor THEN None ELSE last_geometry
        /\ last_layer_id' = IF result.resetCursor THEN None ELSE last_layer_id
        /\ IF result.raised # "none" \/ ResolveStops(result)
           THEN pc' = AfterInput /\ UNCHANGED file_name
           ELSE pc' = "lookup" /\ file_name' = result.file
    /\ UNCHANGED <<inputVars, editMode, last_feature_id, loopVars, seedVars, fetchVars,
                   canceled, lookups, perInputVars>>
    /\ UNCHANGED <<parseVars, resolveVars, locateVars, callVars, unitVars>>

\* coordinates_list = self.get_coordinates(...); if not coordinates_list: ...
SingleLookup ==
    /\ pc = "lookup"
    /\ variant \in {"single", "csv"}
    /\ lookups' = lookups + 1
    /\ \E ioError \in IoChoices :
        LET res == get_coordinates_single(codice_comune, Foglio, ParticellaInput, file_name,
                                          ioError)
        IN  /\ faults' = faults + IoCost(ioError)
            /\ connections' = ClosedInFinally(connections, ioError)
            /\ IF res.raised \/ res.isNone
               THEN pc' = AfterInput /\ UNCHANGED <<coordinates_list, seed_j>>
               ELSE pc' = "seeds" /\ coordinates_list' = res.coords /\ seed_j' = 1
    /\ UNCHANGED <<inputVars, editMode, cursorVars, loopVars, found, loc_last_geometry,
                   resolveStateVars, fetchVars, canceled, perInputVars>>
    /\ UNCHANGED <<parseVars, resolveVars, locateVars, callVars, unitVars>>

\* for coordinates in coordinates_list: one seed is fetched; after the last
\* one the input is finished.
SingleFetch ==
    /\ pc = "seeds"
    /\ variant \in {"single", "csv"}
    /\ seed_j <= Len(coordinates_list)
    /\ \E wfs \in WfsChoices :
       \E fates \in (IF wfs = "ok"
                     THEN FatesFor(coordinates_list[seed_j], SingleLayerRefs, MaxFaults - faults)
                     ELSE {NoFates(coordinates_list[seed_j])}) :
        LET coordinates == coordinates_list[seed_j]
            r == get_particella_wfs(coordinates, sink, SingleLayerRefs, last_feature_id,
                                    wfs, fates)
        IN  /\ faults' = faults + (IF wfs = "ok" THEN FaultCount(fates) ELSE 1)
            /\ sink' = r.sink
            /\ last_feature_id' = r.last_feature_id
            /\ fetchLog' = Append(fetchLog, [parcel |-> idx, seed |-> seed_j,
                                             coordinates |-> coordinates,
                                             success |-> r.success,
                                             added |-> r.features_added])
            /\ lastFetch' = FetchRecord(coordinates, sink, r)
    /\ seed_j' = seed_j + 1
    /\ fetches' = fetches + 1
    /\ pc' = IF seed_j = Len(coordinates_list) THEN AfterInput ELSE "seeds"
    /\ UNCHANGED <<inputVars, editMode, last_geometry, last_layer_id, loopVars,
                   coordinates_list, found, loc_last_geometry, resolveStateVars, canceled,
                   lookups, idx, fcResult, sinkAtInput>>
    /\ UNCHANGED lookupLog
    /\ UNCHANGED connections
    /\ UNCHANGED <<parseVars, resolveVars, locateVars, callVars, unitVars>>

(***************************************************************************)
(* The expression function get_particel_wkt                                *)
(***************************************************************************)
\* get_comune_info: None, the pair ("multiple", result), or the row
\* (file, comune, denominazione_it) of the only match.
get_comune_info(comune) ==
    LET result == IndexQuery(Upper(Trim(comune))) IN
    IF Len(result) = 0 THEN [isNone |-> TRUE, items |-> <<>>]
    ELSE IF Len(result) > 1 THEN [isNone |-> FALSE, items |-> <<"multiple", result>>]
    ELSE [isNone |-> FALSE,
          items |-> <<result[1].file, result[1].comune, result[1].denominazione_it>>]

\* comune_result == "multiple": a tuple compared with a str is never equal.
TupleEqualsStr(items, text) == FALSE

FcText(kind, detail) == [kind |-> kind, detail |-> detail]

\* The text of the ValueError of "file_name, codice_comune, _ = comune_result".
UnpackError == <<"not enough values to unpack (expected 3, got 2)">>

\* Step 1 of get_particel_wkt, up to the unpacking of comune_result.
FcResolve ==
    /\ pc = "start"
    /\ variant = "fc"
    /\ \E ioError \in IoChoices :
        LET comune_result == get_comune_info(inComune)
            rows == IndexQuery(Upper(Trim(inComune)))
            stops == ioError \/ comune_result.isNone
                     \/ TupleEqualsStr(comune_result.items, "multiple")
                     \/ Len(comune_result.items) # 3
        IN  /\ faults' = faults + IoCost(ioError)
            /\ connections' \in ClosedAfterQuery(connections, ioError)
            /\ resolution' = IF ioError THEN "error"
                             ELSE IF Len(rows) = 0 THEN "notfound"
                             ELSE IF Len(rows) > 1 THEN "ambiguous"
                             ELSE "ok"
            /\ fcResult' =
                 IF ioError THEN FcText("exception", <<"query">>)
                 ELSE IF comune_result.isNone THEN FcText("Nessun comune trovato", <<>>)
                 ELSE IF TupleEqualsStr(comune_result.items, "multiple")
                 THEN FcText("Piu comuni trovati", ShownCandidates(comune_result.items[2]))
                 ELSE IF Len(comune_result.items) # 3 THEN FcText("exception", UnpackError)
                 ELSE fcResult
            /\ IF stops
               THEN pc' = "done" /\ UNCHANGED <<file_name, codice_comune>>
               ELSE /\ pc' = "lookup"
                    /\ file_name' = comune_result.items[1]
                    /\ codice_comune' = comune_result.items[2]
    /\ UNCHANGED <<inputVars, editMode, cursorVars, loopVars, seedVars, shown, fetchVars,
                   canceled, lookups, idx, sinkAtInput, fetches>>
    /\ UNCHANGED <<parseVars, resolveVars, locateVars, callVars, unitVars>>

\* Step 2: the coordinates of the first row found.
FcLookup ==
    /\ pc = "lookup"
    /\ variant = "fc"
    /\ lookups' = lookups + 1
    /\ \E ioError \in IoChoices :
        LET result == CoordinateRows(file_name, codice_comune, Foglio, ParticellaInput,
                                     Sezione)
        IN  /\ faults' = faults + IoCost(ioError)
            /\ connections' \in ClosedAfterQuery(connections, ioError)
            /\ IF ioError
               THEN /\ fcResult' = FcText("exception", <<"query">>)
                    /\ pc' = "done"
                    /\ UNCHANGED <<coordinates_list, seed_j>>
               ELSE IF Len(result) = 0
               THEN /\ fcResult' = FcText("Nessuna particella trovata", <<>>)
                    /\ pc' = "done"
                    /\ UNCHANGED <<coordinates_list, seed_j>>
               ELSE /\ coordinates_list' = <<Coordinate(result[1])>>
                    /\ seed_j' = 1
                    /\ pc' = "seeds"
                    /\ UNCHANGED fcResult
    /\ UNCHANGED <<inputVars, editMode, cursorVars, loopVars, found, loc_last_geometry,
                   resolveStateVars, fetchVars, canceled, idx, sinkAtInput, fetches>>
    /\ UNCHANGED <<parseVars, resolveVars, locateVars, callVars, unitVars>>

\* Mutant of match_feature: every feature of the search box matches.
FcMatchAny(feat) == TRUE

\* match_feature
FcMatch(feat) ==
    LET parts == Split(feat.NATIONALCADASTRALREFERENCE, ".") IN
    IF Len(parts) < 2 \/ Len(parts[1]) < 9 THEN FALSE
    ELSE IF \/ SubSeq(parts[1], 1, 4) # codice_comune
            \/ SubSeq(parts[1], 6, 9) # Foglio
            \/ parts[Len(parts)] # ParticellaInput
         THEN FALSE
    ELSE IF Sezione # <<>> /\ SubSeq(parts[1], 5, 5) # Sezione THEN FALSE
    ELSE TRUE

\* Step 3: the first feature of the response that matches and is valid.
FcFetch ==
    /\ pc = "seeds"
    /\ variant = "fc"
    /\ fetches' = fetches + 1
    /\ \E wfs \in WfsChoices :
        LET features == WfsResponse(coordinates_list[1])
            hits == SelectSeq(features, LAMBDA f : FcMatch(f) /\ f.valid)
        IN  /\ faults' = faults + (IF wfs = "ok" THEN 0 ELSE 1)
            /\ fcResult' = IF wfs = "invalid" THEN FcText("Connessione al servizio WFS fallita", <<>>)
                           ELSE IF wfs = "raise" THEN FcText("exception", <<"wfs">>)
                           ELSE IF Len(hits) > 0 THEN FcText("wkt", <<hits[1].geom>>)
                           ELSE FcText("Geometria non trovata o non valida", <<>>)
            /\ fetchLog' = Append(fetchLog, [parcel |-> 0, seed |-> 1,
                                             coordinates |-> coordinates_list[1],
                                             success |-> wfs = "ok",
                                             added |-> 0])
    /\ pc' = "done"
    /\ UNCHANGED <<inputVars, editMode, cursorVars, loopVars, seedVars, resolveStateVars,
                   sink, lastFetch, canceled, lookups, idx, sinkAtInput>>
    /\ UNCHANGED lookupLog
    /\ UNCHANGED connections
    /\ UNCHANGED <<parseVars, resolveVars, locateVars, callVars, unitVars>>

(***************************************************************************)
(* processAlgorithm of testone.py                                          *)
(***************************************************************************)
\* str.isdigit() on the strings of the model.
IsDigitStr(str) == Len(str) > 0 /\ \A k \in 1..Len(str) : str[k] \in Digits

\* validate_inputs raises.
InvalidInputs(comune, foglio, particella) ==
    \/ Len(comune) # 4
    \/ ~IsDigitStr(foglio)
    \/ Trim(particella) = <<>>

\* The connection check, the validation and the choice of the sink.
TestoneBegin ==
    /\ pc = "start"
    /\ variant = "testone"
    /\ \E online \in BOOLEAN, sinkCreated \in BOOLEAN :
        /\ pc' = IF ~online \/ InvalidInputs(Comune, Foglio, ParticellaInput)
                    \/ (~HasLayer /\ ~sinkCreated)
                 THEN "raised" ELSE "resolve"
    /\ UNCHANGED <<inputVars, editMode, cursorVars, loopVars, seedVars, resolveStateVars,
                   fetchVars, canceled, lookups, faults, perInputVars>>
    /\ UNCHANGED connections
    /\ UNCHANGED <<parseVars, resolveVars, locateVars, callVars, unitVars>>

\* SELECT file FROM index WHERE comune LIKE '{comune}' LIMIT 1: any one of
\* the rows that match; none of them raises.
TestoneResolve ==
    /\ pc = "resolve"
    /\ variant = "testone"
    /\ \E ioError \in IoChoices :
        LET result == SelectSeq(IndexRows, LAMBDA r : Like(r.comune, Comune)) IN
        /\ faults' = faults + IoCost(ioError)
        /\ connections' = IF ioError \/ Len(result) = 0 THEN connections ELSE connections + 1
        /\ resolution' = IF ioError THEN "error"
                         ELSE IF Len(result) = 0 THEN "notfound" ELSE "ok"
        /\ IF ioError \/ ResolveStops([file |-> IF Len(result) = 0 THEN None ELSE result[1].file])
           THEN pc' = "raised" /\ UNCHANGED file_name
           ELSE /\ pc' = "lookup"
                /\ \E k \in 1..Len(result) : file_name' = result[k].file
    /\ UNCHANGED <<inputVars, editMode, cursorVars, loopVars, seedVars, codice_comune, shown,
                   fetchVars, canceled, lookups, perInputVars>>
    /\ UNCHANGED <<parseVars, resolveVars, locateVars, callVars, unitVars>>

\* The coordinate query: comune, foglio and particella all by LIKE; the first
\* row is used, no row raises.
TestoneLookup ==
    /\ pc = "lookup"
    /\ variant = "testone"
    /\ lookups' = lookups + 1
    /\ \E ioError \in IoChoices :
        LET result == SelectSeq(DatasetRows(file_name),
                                LAMBDA r : /\ Like(r.comune, Comune)
                                           /\ Like(r.foglio, Foglio)
                                           /\ Like(r.particella, ParticellaInput))
        IN  /\ faults' = faults + IoCost(ioError)
            /\ connections' = IF ioError \/ Len(result) = 0 THEN connections - 1 ELSE connections
            /\ IF ioError \/ Len(result) = 0
               THEN pc' = "raised" /\ UNCHANGED <<coordinates_list, seed_j>>
               ELSE /\ pc' = "seeds"
                    /\ coordinates_list' = <<Coordinate(result[1])>>
                    /\ seed_j' = 1
    /\ UNCHANGED <<inputVars, editMode, cursorVars, loopVars, found, loc_last_geometry,
                   resolveStateVars, fetchVars, canceled, idx, fcResult, sinkAtInput, fetches>>
    /\ UNCHANGED <<parseVars, resolveVars, locateVars, callVars, unitVars>>

\* The feature built from a candidate: the slices of the whole reference.
TestoneFeature(feat, fid) ==
    LET ref == feat.NATIONALCADASTRALREFERENCE
        parts == Split(ref, ".")
    IN  [NATIONALCADASTRALREFERENCE |-> ref,
         ADMIN |-> SubSeq(ref, 1, IF Len(ref) < 4 THEN Len(ref) ELSE 4),
         SEZIONE |-> IF Len(ref) >= 5 THEN SubSeq(ref, 5, 5) ELSE <<>>,
         FOGLIO |-> IF Len(ref) >= 6 THEN SubSeq(ref, 6, IF Len(ref) < 9 THEN Len(ref) ELSE 9)
                    ELSE <<>>,
         PARTICELLA |-> parts[Len(parts)],
         AREA |-> feat.area, geom |-> feat.geom, fid |-> fid]

\* The loop over the features: those not in existing_refs are added, in
\* order; existing_refs is read once and not extended.
RECURSIVE TestoneAdd(_, _, _, _)
TestoneAdd(target, features, existing_refs, k) ==
    IF k > Len(features) THEN target
    ELSE IF features[k].NATIONALCADASTRALREFERENCE \in existing_refs
         THEN TestoneAdd(target, features, existing_refs, k + 1)
    ELSE TestoneAdd(Append(target, TestoneFeature(features[k], Len(target) + 1)),
                    features, existing_refs, k + 1)

\* The request, the loop over the features (left at once when the run is
\* cancelled) and the commit.
TestoneFetch ==
    /\ pc = "seeds"
    /\ variant = "testone"
    /\ fetches' = fetches + 1
    /\ \E wfs \in WfsChoices :
        LET features == WfsResponse(coordinates_list[1])
            existing_refs == IF HasLayer THEN RefsOf(sink) ELSE {}
        IN  /\ faults' = faults + (IF wfs = "ok" THEN 0 ELSE 1)
            /\ fetchLog' = Append(fetchLog,
                 [parcel |-> 0, seed |-> 1, coordinates |-> coordinates_list[1],
                  success |-> wfs = "ok",
                  added |-> IF wfs # "ok" \/ canceled THEN 0
                            ELSE Len(TestoneAdd(sink, features, existing_refs, 1)) - Len(sink)])
            /\ IF wfs # "ok"
               THEN pc' = "raised" /\ UNCHANGED <<sink, editMode>>
               ELSE /\ pc' = "done"
                    /\ sink' = IF canceled THEN sink
                               ELSE TestoneAdd(sink, features, existing_refs, 1)
                    /\ editMode' = IF HasLayer THEN "committed" ELSE editMode
    /\ UNCHANGED <<inputVars, cursorVars, loopVars, seedVars, resolveStateVars,
                   lastFetch, canceled, lookups, idx, fcResult, sinkAtInput>>
    /\ UNCHANGED lookupLog
    /\ connections' = connections - 1
    /\ UNCHANGED <<parseVars, resolveVars, locateVars, callVars, unitVars>>

(***************************************************************************)
(* The decomposition of a reference, as a step of its own.                 *)
(***************************************************************************)
MaxRefLen == 10

ExampleRef == <<"M", "0", "1", "1", "1", "0", "0", "2", "3", ".", "4", "5">>

\* Every string of separators and one other character up to MaxRefLen, and
\* every prefix of the example.
RefInputs ==
    StringsUpTo({"0", "."}, MaxRefLen)
        \cup {SubSeq(ExampleRef, 1, n) : n \in 0..Len(ExampleRef)}

StartDecompose ==
    /\ ref_catastale \in RefInputs
    /\ refVariant \in {"list", "testone"}
    /\ refOut = NoValue
    /\ refPc = "ready"

IdleDecompose ==
    /\ ref_catastale = <<>>
    /\ refVariant = "idle"
    /\ refOut = NoValue
    /\ refPc = "idle"

Components(feature) ==
    [ADMIN |-> feature.ADMIN, SEZIONE |-> feature.SEZIONE, FOGLIO |-> feature.FOGLIO,
     PARTICELLA |-> feature.PARTICELLA]

\* The list, single and CSV variants: the four assignments after
\* parts = ref_catastale.split('.').
DecomposeList ==
    /\ refVariant = "list"
    /\ refPc = "ready"
    /\ refPc' = "done"
    /\ refOut' = Components(NewFeature(WfsFeature(ref_catastale, "geom", TRUE, 0), 0, 1))
    /\ UNCHANGED <<ref_catastale, refVariant, sheetVars, decodeVars>>
    /\ UNCHANGED <<parseVars, resolveVars, locateVars, runVars, callVars>>

\* testone: the four assignments to new_feat.
DecomposeTestone ==
    /\ refVariant = "testone"
    /\ refPc = "ready"
    /\ refPc' = "done"
    /\ refOut' = Components(TestoneFeature(WfsFeature(ref_catastale, "geom", TRUE, 0), 1))
    /\ UNCHANGED <<ref_catastale, refVariant, sheetVars, decodeVars>>
    /\ UNCHANGED <<parseVars, resolveVars, locateVars, runVars, callVars>>

(***************************************************************************)
(* The normalisation of the sheet, as a step of its own.                   *)
(***************************************************************************)
MaxSheetLen == 5

SheetInputs == StringsUpTo({"0", "1", " ", "-"}, MaxSheetLen)

StartSheet ==
    /\ foglioIn \in SheetInputs
    /\ foglioVariant \in {"list", "single", "csv", "fc", "testone"}
    /\ foglioOut = NoValue
    /\ sheetPc = "ready"

\* foglio = <the input>.strip().zfill(4) of the list, single and CSV variants
\* and of get_particel_wkt; the value goes to the queries and comparisons as
\* it is.
SheetNormalise ==
    /\ sheetPc = "ready"
    /\ foglioVariant \in {"list", "single", "csv", "fc"}
    /\ foglioOut' = [used |-> TRUE, foglio |-> ZFill4(Trim(foglioIn))]
    /\ sheetPc' = "done"
    /\ UNCHANGED <<foglioIn, foglioVariant, refVars, decodeVars>>
    /\ UNCHANGED <<parseVars, resolveVars, locateVars, runVars, callVars>>

\* testone: the same expression, then validate_inputs, which raises when
\* the value is not made of digits.
SheetNormaliseTestone ==
    /\ sheetPc = "ready"
    /\ foglioVariant = "testone"
    /\ foglioOut' = [used |-> IsDigitStr(ZFill4(Trim(foglioIn))),
                     foglio |-> ZFill4(Trim(foglioIn))]
    /\ sheetPc' = "done"
    /\ UNCHANGED <<foglioIn, foglioVariant, refVars, decodeVars>>
    /\ UNCHANGED <<parseVars, resolveVars, locateVars, runVars, callVars>>

IdleSheet ==
    /\ foglioIn = <<>>
    /\ foglioVariant = "idle"
    /\ foglioOut = NoValue
    /\ sheetPc = "idle"

(***************************************************************************)
(* The decoding of the coordinates of a result, as a step of its own.  The *)
(* stored integers are written in decimal digits: they exceed the integers *)
(* of the model checker.                                                   *)
(***************************************************************************)
\* float(r) / 1000000 by long division of the digits: the quotient and the
\* remainder, which is the six-digit fraction.
RECURSIVE LongDivide(_, _, _, _)
LongDivide(digits, k, quotient, remainder) ==
    IF k > Len(digits) THEN [ip |-> quotient, fp |-> remainder]
    ELSE LET cur == remainder * 10 + DigitVal(digits[k])
         IN  LongDivide(digits, k + 1, quotient * 10 + cur \div ScaleFactor,
                        cur % ScaleFactor)

\* Mutant of DecodeRaw: the division is an integer division.
DecodeRawTruncated(digits) == [LongDivide(digits, 1, 0, 0) EXCEPT !.fp = 0]

DecodeRaw(digits) == LongDivide(digits, 1, 0, 0)

\* x = float(r[0]) / 1000000; y = float(r[1]) / 1000000
CoordinateRaw(r) == <<DecodeRaw(r.x), DecodeRaw(r.y)>>

ExampleRaw == <<"7", "2", "5", "0", "1", "2", "3", "4", "5", "6">>

RawInputs ==
    {ExampleRaw, IntToStr(0), IntToStr(999999), IntToStr(1000000), IntToStr(12000005)}

MaxRows == 2

StartDecode ==
    /\ rawRow \in UNION {[1..n -> [x : RawInputs, y : RawInputs]] : n \in 1..MaxRows}
    /\ decodeVariant \in {"list", "single"}
    /\ decoded = NoValue
    /\ decodePc = "ready"

\* The loop "for r in result" of get_coordinates in the list variant.
DecodeList ==
    /\ decodePc = "ready"
    /\ decodeVariant = "list"
    /\ decoded' = [k \in 1..Len(rawRow) |-> CoordinateRaw(rawRow[k])]
    /\ decodePc' = "done"
    /\ UNCHANGED <<rawRow, decodeVariant, refVars, sheetVars>>
    /\ UNCHANGED <<parseVars, resolveVars, locateVars, runVars, callVars>>

\* The loop "for idx, r in enumerate(result)" of get_coordinates in the
\* single and CSV variants.
DecodeSingle ==
    /\ decodePc = "ready"
    /\ decodeVariant = "single"
    /\ decoded' = [k \in 1..Len(rawRow) |-> CoordinateRaw(rawRow[k])]
    /\ decodePc' = "done"
    /\ UNCHANGED <<rawRow, decodeVariant, refVars, sheetVars>>
    /\ UNCHANGED <<parseVars, resolveVars, locateVars, runVars, callVars>>

IdleDecode ==
    /\ rawRow = <<>>
    /\ decodeVariant = "idle"
    /\ decoded = NoValue
    /\ decodePc = "idle"

IdleUnits == IdleDecompose /\ IdleSheet /\ IdleDecode

(***************************************************************************)
(* Inputs of a run.                                                        *)
(***************************************************************************)
StoredA1 == NewFeature(FeatA1, 120, 1)

ComuneInputs == {<<"a", "0", "0", "1">>, <<"a", "b">>, <<"b", "0", "0", "9">>, CodeBABA}

FoglioInputs == {<<"1">>, <<"2">>}

ParticellaInputs ==
    { <<"1">>, <<"1", ",", "1">>, <<"1", "-", "2">>, <<"2", "-", "1">>,
      <<"1", "2", ",", "2">>, <<"9", ",", "1">> }

SezioneInputs == {<<>>, <<"a">>}

IdleRun ==
    /\ variant = "idle"
    /\ layerKind = "new"
    /\ layerInit = <<>>
    /\ inComune = <<>>
    /\ inFoglio = <<>>
    /\ inParticella = <<>>
    /\ inSezione = <<>>
    /\ inAll = FALSE
    /\ pc = "idle"
    /\ sink = <<>>
    /\ editMode = "none"
    /\ codice_comune = <<>>
    /\ file_name = None
    /\ last_geometry = None
    /\ last_layer_id = None
    /\ last_feature_id = None
    /\ particelle_da_cercare = <<>>
    /\ loop_i = 0
    /\ particelle_non_trovate = <<>>
    /\ particelle_trovate = 0
    /\ coordinates_list = <<>>
    /\ seed_j = 1
    /\ found = FALSE
    /\ loc_last_geometry = None
    /\ canceled = FALSE
    /\ progress = None
    /\ resolution = "none"
    /\ shown = <<>>
    /\ lookups = 0
    /\ fetchLog = <<>>
    /\ lastFetch = NoValue
    /\ faults = 0
    /\ csvRows = <<>>
    /\ idx = 0
    /\ fcResult = FcText("none", <<>>)
    /\ sinkAtInput = <<>>
    /\ fetches = 0
    /\ connections = 0
    /\ lookupLog = <<>>

CsvRow(comune, foglio, particella) ==
    [COMUNE |-> comune, FOGLIO |-> foglio, PARTICELLA |-> particella, complete |-> TRUE]

\* A line with two fields only: DictReader gives None for PARTICELLA.
CsvShortRow ==
    [COMUNE |-> <<"a", "0", "0", "1">>, FOGLIO |-> <<"1">>, PARTICELLA |-> <<>>,
     complete |-> FALSE]

CsvRowInputs ==
    { CsvRow(<<"a", "0", "0", "1">>, <<"1">>, <<"1">>),
      CsvRow(<<"a", "b">>, <<"1">>, <<"1">>),
      CsvRow(<<"0">>, <<"1">>, <<"1">>),
      CsvRow(<<"b", "0", "0", "2">>, <<"1">>, <<"1">>),
      CsvShortRow }

\* The CSV files: no row, one row, two rows.
CsvInputs ==
    {<<>>} \cup {<<a>> : a \in CsvRowInputs}
           \cup {<<a, b>> : a \in CsvRowInputs, b \in CsvRowInputs}

StartRun ==
    /\ variant \in {"list", "single", "csv", "fc", "testone"}
    /\ layerKind \in (IF variant \in {"csv", "fc"} THEN {"new"}
                      ELSE IF variant = "list" THEN {"new", "shp", "gpkg"}
                      ELSE {"new", "shp"})
    /\ layerInit \in (IF layerKind = "new" THEN {<<>>}
                      ELSE IF layerKind = "shp" /\ variant = "list" THEN {<<>>, <<StoredA1>>}
                      ELSE {<<StoredA1>>})
    /\ csvRows \in (IF variant = "csv" THEN CsvInputs ELSE {<<>>})
    /\ inComune \in (IF variant = "csv" THEN {<<>>}
                     ELSE IF variant = "single" THEN ComuneInputs \cup {<<" ">>}
                     ELSE ComuneInputs)
    /\ inAll \in (IF variant = "list" THEN BOOLEAN ELSE {FALSE})
    /\ inFoglio \in (IF variant = "csv" THEN {<<>>} ELSE FoglioInputs)
    /\ inParticella \in (IF variant = "csv" THEN {<<>>}
                         ELSE IF inAll THEN {<<"1">>}
                         ELSE IF variant = "fc" THEN ParticellaInputs \cup {<<"1", "2">>}
                         ELSE ParticellaInputs)
    /\ inSezione \in (IF variant \in {"list", "fc"} THEN SezioneInputs ELSE {<<>>})
    /\ pc = "start"
    /\ sink = (IF variant \in {"list", "testone"} THEN layerInit ELSE <<>>)
    /\ editMode = "none"
    /\ codice_comune = <<>>
    /\ file_name = None
    /\ last_geometry \in (IF variant = "list" THEN {None, "geomOld"} ELSE {None})
    /\ last_layer_id = None
    /\ last_feature_id = None
    /\ particelle_da_cercare = <<>>
    /\ loop_i = 0
    /\ particelle_non_trovate = <<>>
    /\ particelle_trovate = 0
    /\ coordinates_list = <<>>
    /\ seed_j = 1
    /\ found = FALSE
    /\ loc_last_geometry = None
    /\ canceled = FALSE
    /\ progress = None
    /\ resolution = "none"
    /\ shown = <<>>
    /\ lookups = 0
    /\ fetchLog = <<>>
    /\ lastFetch = NoValue
    /\ faults = 0
    /\ idx = 0
    /\ fcResult = FcText("none", <<>>)
    /\ sinkAtInput = sink
    /\ fetches = 0
    /\ connections = 0
    /\ lookupLog = <<>>

(***************************************************************************)
(* Claims about whole runs, checked under Spec.                            *)
(***************************************************************************)
\* C1 as stated: after any run, on a new output layer or on an existing one,
\* the output never holds two features with the same national reference.
C1_NoDuplicateReferences ==
    \A a \in 1..Len(sink) : \A b \in 1..Len(sink) :
        a # b => sink[a].NATIONALCADASTRALREFERENCE # sink[b].NATIONALCADASTRALREFERENCE

\* The references the service returned to the last fetch call.
LastReturnedRefs == {lastFetch.returned[k] : k \in 1..Len(lastFetch.returned)}

\* C2: a fetch call that completes with existing_refs already holding every
\* reference the service returns adds no feature to the sink, counts no
\* addition and returns no last geometry.
C2_DedupIdempotence ==
    (variant \in {"list", "single", "csv"} /\ Len(fetchLog) > 0) =>
        ((lastFetch.success /\ LastReturnedRefs \subseteq lastFetch.existing_entry) =>
            /\ lastFetch.features_added = 0
            /\ lastFetch.sink_growth = 0
            /\ lastFetch.last_geometry = None)

\* The same seed is fetched a second time, after the first call stored what
\* the service returns for it.
C2_Witness ==
    /\ variant = "list"
    /\ Len(fetchLog) >= 2
    /\ lastFetch.success
    /\ lastFetch.returned # <<>>
    /\ LastReturnedRefs \subseteq lastFetch.existing_entry
    /\ \E k \in 1..(Len(fetchLog) - 1) :
          /\ fetchLog[k].coordinates = lastFetch.coordinates
          /\ fetchLog[k].success
    /\ Len(sink) > Len(layerInit)
    /\ lastFetch.features_added = 0
    /\ lastFetch.sink_growth = 0

\* C8: in every variant, once the municipality lookup of an input has ended
\* with several matches or with none, no dataset query and no feature-service
\* request is issued for that input and the output stays as it was when the
\* input was taken.
C8_NoLookupAfterFailedResolution ==
    resolution \in {"ambiguous", "notfound"} =>
        /\ lookups = 0
        /\ fetches = 0
        /\ sink = sinkAtInput
        /\ pc \in {"done", "raised", "rows"}

\* The second row of a CSV is ambiguous after the first one added a feature.
C8_Witness ==
    /\ variant = "csv"
    /\ idx = 2
    /\ pc = "rows"
    /\ resolution = "ambiguous"
    /\ Len(shown) = 2
    /\ Len(sink) > 0
    /\ sink = sinkAtInput
    /\ lookups = 0
    /\ fetches = 0

\* C9 as stated: when the municipality query of get_particel_wkt matches
\* more than one index row, the returned text is the error that lists every
\* candidate as code and name.
C9_FcListsCandidates ==
    (variant = "fc" /\ pc = "done" /\ resolution = "ambiguous") =>
        /\ fcResult.kind = "Piu comuni trovati"
        /\ fcResult.detail = ShownCandidates(IndexQuery(Upper(Trim(inComune))))

\* A call of get_particel_wkt has returned.
FcReturned == variant = "fc" /\ pc = "done"

\* The returned text is one of the results that start with "ERRORE".
FcIsError == fcResult.kind \notin {"wkt", "none"}

\* feat is a feature of the search box with a valid geometry whose reference
\* decomposes into the resolved code, the normalized sheet, the requested
\* parcel and, when a section is requested, that section.
FcIsRequested(feat) ==
    LET ref == feat.NATIONALCADASTRALREFERENCE IN
    /\ feat.valid
    /\ RefAdmin(ref) = codice_comune
    /\ RefFoglio(ref) = ZFill4(Trim(inFoglio))
    /\ RefParticella(ref) = Trim(inParticella)
    /\ Trim(inSezione) # <<>> => RefSezione(ref) = Upper(Trim(inSezione))

\* C30: a call of get_particel_wkt never raises; what it returns is either a
\* text that starts with "ERRORE" or the geometry of a valid feature of the
\* search box whose admin code, sheet and parcel (and section, when one is
\* requested) are the resolved municipality code, the normalized sheet and
\* the requested parcel, never the geometry of another feature of the box.
C30_FcGeometryOfRequestedParcel ==
    variant = "fc" =>
        /\ pc # "raised"
        /\ pc = "done" =>
              \/ FcIsError
              \/ /\ fcResult.kind = "wkt"
                 /\ resolution = "ok"
                 /\ \E k \in 1..Len(WfsResponse(coordinates_list[1])) :
                       LET feat == WfsResponse(coordinates_list[1])[k] IN
                       /\ fcResult.detail = <<feat.geom>>
                       /\ FcIsRequested(feat)
                 /\ \A k \in 1..Len(WfsResponse(coordinates_list[1])) :
                       LET feat == WfsResponse(coordinates_list[1])[k] IN
                       ~FcIsRequested(feat) => fcResult.detail # <<feat.geom>>

\* C30 witness: the search box of the requested parcel holds the requested
\* feature with a geometry that is not valid and a neighbouring parcel with a
\* valid one; the call returns an error, not the geometry of the neighbour.
C30_Witness ==
    /\ FcReturned
    /\ fetches = 1
    /\ fetchLog[1].success
    /\ \E k \in 1..Len(WfsResponse(coordinates_list[1])) :
          LET feat == WfsResponse(coordinates_list[1])[k] IN
          feat.valid /\ ~FcIsRequested(feat)
    /\ \A k \in 1..Len(WfsResponse(coordinates_list[1])) :
          ~FcIsRequested(WfsResponse(coordinates_list[1])[k])
    /\ fcResult.kind = "Geometria non trovata o non valida"

\* The fetch calls issued for the parcel id at index p of the list.
FetchesOf(p) == {k \in 1..Len(fetchLog) : fetchLog[k].parcel = p}

\* The lookups up to the k-th that gave no seeds.
MissesUpTo(k) ==
    Cardinality({m \in 1..k : lookupLog[m].outcome \in {"none", "failed"}})

\* C11: in the list variant every parcel id is looked up once, in order; an id
\* whose lookup returns zero rows or fails is appended to the not-found list
\* and no fetch is issued for it; a run that is not cancelled looks up every
\* id of the list, whatever the earlier lookups gave.
C11_NoSeedsIsNotFound ==
    variant = "list" =>
        /\ \A k \in 1..Len(lookupLog) :
              /\ lookupLog[k].parcel = k - 1
              /\ lookupLog[k].particella = particelle_da_cercare[k]
              /\ lookupLog[k].outcome \in {"none", "failed"} =>
                    /\ FetchesOf(k - 1) = {}
                    /\ Len(particelle_non_trovate) >= MissesUpTo(k)
                    /\ \E n \in 1..Len(particelle_non_trovate) :
                          particelle_non_trovate[n] = lookupLog[k].particella
        /\ (pc \in {"summary", "done"} /\ resolution = "ok" /\ ~canceled) =>
              Len(lookupLog) = Len(particelle_da_cercare)

\* The first id has no row, the second one is looked up and fetched.
C11_Witness ==
    /\ variant = "list"
    /\ pc = "done"
    /\ ~canceled
    /\ Len(lookupLog) = 2
    /\ lookupLog[1].outcome = "none"
    /\ lookupLog[2].outcome = "rows"
    /\ FetchesOf(0) = {}
    /\ FetchesOf(1) # {}
    /\ particelle_non_trovate = << <<"9">> >>

\* Some fetch call of the parcel id at index p added a feature to the output.
AddedBy(p) == \E k \in FetchesOf(p) : fetchLog[k].success /\ fetchLog[k].added > 0

\* The positions of the completed parcel ids none of whose calls added one.
NotAddedPositions == SelectSeq([k \in 1..loop_i |-> k], LAMBDA k : ~AddedBy(k - 1))

\* C12: the found count is the number of completed parcel ids with at least
\* one fetch call that added a feature, each counted once, and the not-found
\* list holds, in order, exactly the other completed ids: those without
\* seeds, those whose calls all failed and those whose calls added nothing.
C12_FoundIffAdded ==
    variant = "list" =>
        /\ particelle_trovate = Cardinality({q \in 0..(loop_i - 1) : AddedBy(q)})
        /\ particelle_non_trovate =
               [n \in 1..Len(NotAddedPositions) |-> particelle_da_cercare[NotAddedPositions[n]]]

\* On an existing layer the first id is found through a call that adds a
\* feature; every call of the second id succeeds and adds nothing, the
\* feature being present already, and the id is listed as not found.
C12_Witness ==
    /\ variant = "list"
    /\ pc = "done"
    /\ HasLayer
    /\ loop_i = 2
    /\ AddedBy(0)
    /\ FetchesOf(1) # {}
    /\ \A k \in FetchesOf(1) : fetchLog[k].success /\ fetchLog[k].added = 0
    /\ particelle_trovate = 1
    /\ particelle_non_trovate = << <<"2">> >>

\* A run of the list variant went through its loop without being cancelled.
ListRunEnded ==
    variant = "list" /\ pc \in {"summary", "done"} /\ resolution = "ok" /\ ~canceled

\* The positions of the requested ids without a row in the dataset.
Unmatched ==
    {k \in 1..Len(particelle_da_cercare) :
        CoordinateRows(file_name, codice_comune, Foglio, particelle_da_cercare[k], Sezione)
            = <<>>}

\* C13 as stated: N requested ids of which K have no coordinate match give a
\* not-found list of length K and a found count of N - K.
C13_Original_CountsByMatch ==
    ListRunEnded =>
        /\ Len(particelle_non_trovate) = Cardinality(Unmatched)
        /\ particelle_trovate = Len(particelle_da_cercare) - Cardinality(Unmatched)

\* C13 amended: after a run that is not cancelled the found count and the
\* length of the not-found list add up to N, the list has at least K entries
\* and the count is at most N - K; they are K and N - K when every id with a
\* coordinate match has a fetch call that added a feature.
C13_CountsByMatchAndAddition ==
    ListRunEnded =>
        LET N == Len(particelle_da_cercare)
            K == Cardinality(Unmatched)
        IN  /\ particelle_trovate + Len(particelle_non_trovate) = N
            /\ Len(particelle_non_trovate) >= K
            /\ particelle_trovate <= N - K
            /\ (\A k \in (1..N) \ Unmatched : AddedBy(k - 1)) =>
                  /\ Len(particelle_non_trovate) = K
                  /\ particelle_trovate = N - K

\* Two ids are requested, one has no row and the other one adds a feature.
C13_Witness ==
    /\ ListRunEnded
    /\ Len(particelle_da_cercare) = 2
    /\ Cardinality(Unmatched) = 1
    /\ \A k \in (1..2) \ Unmatched : AddedBy(k - 1)
    /\ Len(particelle_non_trovate) = 1
    /\ particelle_trovate = 1

\* The number of parcel ids whose iteration of the loop has completed: every
\* lookup made, less the one whose seeds are still being fetched.
CompletedIterations == IF pc = "seeds" THEN Len(lookupLog) - 1 ELSE Len(lookupLog)

\* The ids at the positions P of the requested list, in the order of the list.
RequestedAt(P) ==
    LET positions == SelectSeq([k \in 1..Len(particelle_da_cercare) |-> k],
                               LAMBDA k : k \in P)
    IN  [n \in 1..Len(positions) |-> particelle_da_cercare[positions[n]]]

\* C27: all along the loop of the list variant the found count and the
\* length of the not-found list add up to the number of completed
\* iterations, which is the number of requested ids after a run that is not
\* cancelled; the not-found list holds, in the order of the request, the ids
\* at some of the completed positions, one entry for each such position.
C27_CountsAddUpToCompleted ==
    variant = "list" =>
        /\ particelle_trovate + Len(particelle_non_trovate) = CompletedIterations
        /\ CompletedIterations = loop_i
        /\ ListRunEnded => CompletedIterations = Len(particelle_da_cercare)
        /\ \E P \in SUBSET (1..CompletedIterations) :
              /\ Cardinality(P) = Len(particelle_non_trovate)
              /\ particelle_non_trovate = RequestedAt(P)

\* The same id is requested twice and no call adds a feature for it: both
\* occurrences are listed as not found.
C27_Witness ==
    /\ ListRunEnded
    /\ pc = "done"
    /\ Len(particelle_da_cercare) = 2
    /\ particelle_da_cercare[1] = particelle_da_cercare[2]
    /\ particelle_trovate = 0
    /\ particelle_non_trovate = particelle_da_cercare

\* C28: a run of the list variant on an existing layer has left update or
\* edit mode when it returns, whatever the path it returns by: a GeoPackage
\* layer has left update mode, any other layer is committed when at least one
\* parcel id was found and rolled back otherwise.
C28_EditModeLeftOnReturn ==
    (variant = "list" /\ pc = "done" /\ HasLayer) =>
        editMode = (IF layerKind = "gpkg" THEN "left"
                    ELSE IF particelle_trovate > 0 THEN "committed"
                    ELSE "rolledback")

\* C14: a fetch call whose request fails (the service layer is not valid or
\* the request raises) returns (False, None) and has added nothing: the
\* output is as long as it was when the call began.
C14_FailedFetchAddsNothing ==
    (variant \in {"list", "single", "csv"} /\ Len(fetchLog) > 0 /\ ~lastFetch.success) =>
        /\ lastFetch.last_geometry = None
        /\ lastFetch.features_added = 0
        /\ lastFetch.sink_growth = 0
        /\ fetchLog[Len(fetchLog)].added = 0

\* A call fails for a seed whose response holds a feature that is not in the
\* output yet, after an earlier call of the run added one.
C14_Witness ==
    /\ variant = "list"
    /\ Len(fetchLog) >= 2
    /\ fetchLog[1].success
    /\ fetchLog[1].added > 0
    /\ ~lastFetch.success
    /\ lastFetch.last_geometry = None
    /\ lastFetch.sink_growth = 0
    /\ \E k \in 1..Len(WfsResponse(lastFetch.coordinates)) :
          WfsResponse(lastFetch.coordinates)[k].NATIONALCADASTRALREFERENCE \notin RefsOf(sink)

\* The seeds of the parcel id at position k of the list, from the dataset.
SeedsOf(k) ==
    LET rows == CoordinateRows(file_name, codice_comune, Foglio, particelle_da_cercare[k],
                               Sezione)
    IN  [n \in 1..Len(rows) |-> Coordinate(rows[n])]

\* The fetch calls due for the k-th lookup: all the seeds once its parcel id
\* is completed, those before seed_j while it is the current one.
FetchesDue(k) ==
    IF lookupLog[k].outcome # "rows" THEN 0
    ELSE IF k <= loop_i THEN lookupLog[k].seeds
    ELSE seed_j - 1

\* C15: in the list variant the fetch calls of a run are, in order, one call
\* per seed of every parcel id whose lookup gave seeds: no seed is fetched
\* twice for the same entry of the list and none is left out, whether the
\* calls before it failed or not; a run that is not cancelled does so for
\* every id of the list.
C15_EverySeedFetchedOnce ==
    variant = "list" =>
        /\ \A k \in 1..Len(lookupLog) :
              /\ Cardinality(FetchesOf(k - 1)) = FetchesDue(k)
              /\ \A n \in 1..FetchesDue(k) :
                    \E m \in FetchesOf(k - 1) :
                        /\ fetchLog[m].seed = n
                        /\ fetchLog[m].coordinates = SeedsOf(k)[n]
        /\ \A m \in 1..Len(fetchLog) :
              /\ fetchLog[m].parcel < Len(lookupLog)
              /\ \A q \in 1..(m - 1) :
                    \/ fetchLog[q].parcel < fetchLog[m].parcel
                    \/ /\ fetchLog[q].parcel = fetchLog[m].parcel
                       /\ fetchLog[q].seed < fetchLog[m].seed
        /\ ListRunEnded => Len(lookupLog) = Len(particelle_da_cercare)

\* The call for the first seed of the first id fails; its other seeds and the
\* seed of the second id are fetched all the same.
C15_Witness ==
    /\ ListRunEnded
    /\ Len(lookupLog) = 2
    /\ Len(fetchLog) >= 3
    /\ ~fetchLog[1].success
    /\ Cardinality(FetchesOf(0)) >= 2
    /\ \A m \in FetchesOf(0) : m > 1 => fetchLog[m].success
    /\ Cardinality(FetchesOf(1)) = 1
    /\ particelle_trovate = 2

\* What a step of the list variant does with respect to the cancellation.
CancellationStep ==
    variant = "list" =>
        \* the poll at the start of an iteration: a cancellation it sees ends
        \* the loop before any lookup, otherwise the id is looked up
        /\ (pc = "loop" /\ loop_i < Len(particelle_da_cercare) /\ canceled) =>
              (pc' = "summary" /\ lookupLog' = lookupLog /\ fetchLog' = fetchLog
                  /\ sink' = sink /\ loop_i' = loop_i)
        /\ (pc = "loop" /\ loop_i < Len(particelle_da_cercare) /\ ~canceled) =>
              (canceled' \/ Len(lookupLog') = Len(lookupLog) + 1)
        \* no poll between the seeds: each step is a fetch of the next seed or
        \* the end of the id, cancelled or not
        /\ pc = "seeds" =>
              \/ canceled' # canceled
              \/ /\ seed_j <= Len(coordinates_list)
                 /\ Len(fetchLog') = Len(fetchLog) + 1
                 /\ fetchLog'[Len(fetchLog')].seed = seed_j
                 /\ pc' = "seeds"
              \/ /\ seed_j > Len(coordinates_list)
                 /\ pc' = "loop" /\ loop_i' = loop_i + 1
        \* after the loop: the summary, then the finalization, and nothing else
        /\ pc = "summary" =>
              /\ pc' = "done"
              /\ lookupLog' = lookupLog /\ fetchLog' = fetchLog /\ sink' = sink
              /\ HasLayer => editMode' \in {"left", "committed", "rolledback"}

\* C23: the list variant polls the cancellation at the start of each
\* iteration only: a poll that sees it ends the loop with no further lookup
\* or fetch, an id that was begun has all its seeds fetched whether the run
\* was cancelled meanwhile or not, and the loop, however it ends, is followed
\* by the summary and the finalization of the layer.
C23_CancellationPerParcel ==
    [][CancellationStep]_vars

\* C23 witness: the run was cancelled while the first of two ids was
\* processed: its three seeds were fetched, the second id was neither looked
\* up nor fetched, and the layer was committed.
C23_Witness ==
    /\ variant = "list" /\ pc = "done" /\ canceled
    /\ Len(particelle_da_cercare) = 2 /\ loop_i = 1
    /\ Len(lookupLog) = 1 /\ lookupLog[1].seeds = 3
    /\ Len(fetchLog) = 3
    /\ editMode = "committed"

\* The features the output held before the run.
SinkAtStart == IF variant = "list" THEN layerInit ELSE <<>>

\* C24: when a run of a processing algorithm has ended, the cursor is that
\* of the last feature the output accepted in the run: its geometry, the
\* identity of the output and its feature id; a run that added nothing
\* leaves no geometry in the cursor, whatever the cursor held before.
C24_CursorIsLastAdded ==
    (variant \in {"list", "single", "csv"} /\ pc = "done") =>
        IF Len(sink) > Len(SinkAtStart)
        THEN /\ last_geometry = sink[Len(sink)].geom
             /\ last_feature_id = sink[Len(sink)].fid
             /\ last_layer_id = DestId
        ELSE last_geometry = None

\* C25: a dataset connection lives inside one query call: between the
\* calls of a run, and so whenever a fetch of the feature service is about to
\* be made or the run has ended, no connection is open, whether the calls
\* before returned or raised.
C25_ConnectionsScopedToCalls ==
    connections = 0

\* A step of the list variant that takes a parcel id reports the progress,
\* and no other step changes it.
ProgressStep ==
    variant = "list" =>
        IF Len(lookupLog') > Len(lookupLog)
        THEN /\ Len(particelle_da_cercare) > 0
             /\ progress' * Len(particelle_da_cercare) <= loop_i * 100
             /\ loop_i * 100 < (progress' + 1) * Len(particelle_da_cercare)
             /\ progress' \in 0..99
             /\ Len(lookupLog) > 0 => progress' >= progress
        ELSE progress' = progress

\* A specification that gives no parcel id: nothing is looked up or fetched
\* and the summary has 0 requested, 0 found and nothing not found.
NoIdsNoWork ==
    (variant = "list" /\ pc \in {"loop", "summary", "done"} /\ resolution = "ok" /\ ~inAll
        /\ Len(particelle_da_cercare) = 0) =>
        /\ pc = "done" => editMode \notin {"update", "editing"}
        /\ lookupLog = <<>> /\ fetchLog = <<>> /\ progress = None
        /\ particelle_trovate = 0 /\ particelle_non_trovate = <<>>

IsPrefix(a, b) == Len(a) <= Len(b) /\ SubSeq(b, 1, Len(a)) = a

\* C22: in the CSV mode, once the output exists, the run ends only after
\* the last row was taken, whatever happened to the rows before it, and
\* what a row finds in the output when it is taken is still there afterwards.
C22_RowsAreIsolated ==
    variant = "csv" =>
        /\ pc = "raised" => idx = 0
        /\ pc = "done" => idx = Len(csvRows)
        /\ IsPrefix(sinkAtInput, sink)

(***************************************************************************)
(* Claims about one call of get_particella_wfs, checked under SpecFetch.   *)
(***************************************************************************)
CallDone == wPc = "done" /\ wWfs = "ok"

Candidates == WfsResponse(wCoordinates)

CallEntryRefs == IF wHasLayer THEN RefsOf(wSink) ELSE {}

\* What the call appended to the sink.
AddedByCall == SubSeq(wOut.sink, Len(wSink) + 1, Len(wOut.sink))

UsablePositions ==
    SelectSeq([k \in 1..Len(Candidates) |-> k], LAMBDA k : Candidates[k].valid)

\* The same call on the response without the candidates of unusable geometry.
WithoutUnusable ==
    ProcessFeatures([sink |-> wSink, existing_refs |-> CallEntryRefs,
                     features_added |-> 0, last_geometry |-> None,
                     last_feature_id |-> None, warnings |-> <<>>],
                    [n \in 1..Len(UsablePositions) |-> Candidates[UsablePositions[n]]],
                    [n \in 1..Len(UsablePositions) |-> wFates[UsablePositions[n]]], 1)

GeometryWarned(ref) ==
    \E n \in 1..Len(wOut.warnings) : wOut.warnings[n] = <<"Geometria non valida", ref>>

UnusableNeverAdded ==
    \A k \in 1..Len(Candidates) :
        ~Candidates[k].valid =>
            LET ref == Candidates[k].NATIONALCADASTRALREFERENCE IN
            /\ ref \notin RefsOf(AddedByCall)
            /\ ref \in wOut.existing_exit <=> ref \in CallEntryRefs

OthersStillProcessed ==
    /\ wOut.success
    /\ wOut.sink = WithoutUnusable.sink
    /\ wOut.existing_exit = WithoutUnusable.existing_refs
    /\ wOut.features_added = WithoutUnusable.features_added
    /\ wOut.last_geometry = WithoutUnusable.last_geometry

\* C16 as stated: every candidate whose geometry is missing or not valid is
\* skipped with a warning, is added neither to the output nor to
\* existing_refs, and the other candidates of the response are processed as
\* if it were not there.
C16_Original_UnusableSkippedWithWarning ==
    CallDone =>
        /\ UnusableNeverAdded
        /\ OthersStillProcessed
        /\ \A k \in 1..Len(Candidates) :
              ~Candidates[k].valid => GeometryWarned(Candidates[k].NATIONALCADASTRALREFERENCE)

\* C16 amended: a candidate whose geometry is missing or not valid is added
\* neither to the output nor to existing_refs by the call, the other
\* candidates are processed as if it were not there, and the warning is
\* given exactly when its reference is not already in existing_refs (one
\* that is already there is skipped before its geometry is looked at).
C16_UnusableSkipped ==
    CallDone =>
        /\ UnusableNeverAdded
        /\ OthersStillProcessed
        /\ \A k \in 1..Len(Candidates) :
              ~Candidates[k].valid =>
                  (GeometryWarned(Candidates[k].NATIONALCADASTRALREFERENCE)
                      <=> Candidates[k].NATIONALCADASTRALREFERENCE \notin CallEntryRefs)

\* C16 witness: a response with an unusable candidate followed by a usable
\* one; the first is warned about and the second is added.
C16_Witness ==
    /\ CallDone
    /\ \E k \in 1..Len(Candidates) :
          /\ ~Candidates[k].valid
          /\ GeometryWarned(Candidates[k].NATIONALCADASTRALREFERENCE)
    /\ wOut.features_added = 1
    /\ wOut.last_geometry = FeatA2.geom

\* The same call with every reprojection succeeding.
Reprojected ==
    get_particella_wfs(wCoordinates, wSink, CallEntryRefs, None, wWfs,
                       [k \in 1..Len(wFates) |-> [wFates[k] EXCEPT !.xform = "ok"]])

\* The candidates whose reprojection is attempted and fails.
ReprojectionFailed(k) ==
    /\ Candidates[k].valid
    /\ Candidates[k].NATIONALCADASTRALREFERENCE \notin CallEntryRefs
    /\ wFates[k].xform # "ok"

AreaWarned(k) ==
    \E n \in 1..Len(wOut.warnings) :
        wOut.warnings[n] =
            <<IF wFates[k].xform = "err" THEN "Errore nella trasformazione"
              ELSE "Errore nel calcolo dell'area",
              Candidates[k].NATIONALCADASTRALREFERENCE>>

\* C17: a failed reprojection (error code or exception) changes nothing but
\* the area and the warnings: the call succeeds, adds the same features in
\* the same order with the same attributes apart from AREA, returns the same
\* geometry (so the parcel is found exactly when it would have been), and a
\* feature whose reprojection failed is warned about and, when the sink
\* accepts it, is in the output with AREA 0.
C17_AreaFallback ==
    CallDone =>
        /\ wOut.success
        /\ wOut.features_added = Reprojected.features_added
        /\ wOut.last_geometry = Reprojected.last_geometry
        /\ SeedFound(wOut) <=> SeedFound(Reprojected)
        /\ wOut.existing_exit = Reprojected.existing_exit
        /\ Len(wOut.sink) = Len(Reprojected.sink)
        /\ \A n \in 1..Len(wOut.sink) :
              [wOut.sink[n] EXCEPT !.AREA = 0] = [Reprojected.sink[n] EXCEPT !.AREA = 0]
        /\ \A k \in 1..Len(Candidates) :
              ReprojectionFailed(k) =>
                  /\ AreaWarned(k)
                  /\ wFates[k].add = "accept" =>
                        \E n \in 1..Len(AddedByCall) :
                            /\ AddedByCall[n].NATIONALCADASTRALREFERENCE
                                  = Candidates[k].NATIONALCADASTRALREFERENCE
                            /\ AddedByCall[n].geom = Candidates[k].geom
                            /\ AddedByCall[n].AREA = 0

\* C17 witness: a response of two candidates, the reprojection of the first
\* returns an error code and that of the second raises; both are added with
\* AREA 0 and the call returns the geometry of the second.
C17_Witness ==
    /\ CallDone
    /\ Len(Candidates) = 2
    /\ ReprojectionFailed(1) /\ wFates[1].xform = "err"
    /\ ReprojectionFailed(2) /\ wFates[2].xform = "exc"
    /\ Len(AddedByCall) = 2
    /\ AddedByCall[1].AREA = 0 /\ AddedByCall[2].AREA = 0
    /\ SeedFound(wOut)
    /\ Len(wOut.warnings) = 2

\* The state of the loop over the candidates after the first k of them.
StateAfter(k) ==
    ProcessFeatures([sink |-> wSink, existing_refs |-> CallEntryRefs,
                     features_added |-> 0, last_geometry |-> None,
                     last_feature_id |-> None, warnings |-> <<>>],
                    SubSeq(Candidates, 1, k), SubSeq(wFates, 1, k), 1)

\* Candidate k is handed to sink.addFeature.
Attempted(k) ==
    /\ Candidates[k].valid
    /\ Candidates[k].NATIONALCADASTRALREFERENCE \notin StateAfter(k - 1).existing_refs

\* Candidate k is handed to the sink, which rejects it or raises.
Refused(k) == Attempted(k) /\ wFates[k].add # "accept"

NotRefusedPositions ==
    SelectSeq([k \in 1..Len(Candidates) |-> k], LAMBDA k : ~Refused(k))

\* The same call on the response without the candidates the sink refused.
WithoutRefused ==
    ProcessFeatures([sink |-> wSink, existing_refs |-> CallEntryRefs,
                     features_added |-> 0, last_geometry |-> None,
                     last_feature_id |-> None, warnings |-> <<>>],
                    [n \in 1..Len(NotRefusedPositions) |-> Candidates[NotRefusedPositions[n]]],
                    [n \in 1..Len(NotRefusedPositions) |-> wFates[NotRefusedPositions[n]]], 1)

\* C29: in a call of get_particella_wfs the iteration of a candidate adds its
\* reference to existing_refs, increases features_added and sets
\* last_geometry exactly when the sink accepted the feature; when the sink
\* rejects it or its processing raises, the output, existing_refs,
\* features_added and last_geometry are what they were before the iteration,
\* and the call ends as if the candidate had not been in the response, so
\* the candidates after it are processed all the same.
C29_ChangesOnlyOnAcceptance ==
    CallDone =>
        /\ wOut.success
        /\ wOut.sink = StateAfter(Len(Candidates)).sink
        /\ wOut.sink = WithoutRefused.sink
        /\ wOut.existing_exit = WithoutRefused.existing_refs
        /\ wOut.features_added = WithoutRefused.features_added
        /\ wOut.last_geometry = WithoutRefused.last_geometry
        /\ \A k \in 1..Len(Candidates) :
              LET before == StateAfter(k - 1)
                  after == StateAfter(k)
                  ref == Candidates[k].NATIONALCADASTRALREFERENCE
                  accepted == Attempted(k) /\ wFates[k].add = "accept"
              IN  /\ accepted <=> (ref \notin before.existing_refs /\ ref \in after.existing_refs)
                  /\ accepted <=> after.features_added = before.features_added + 1
                  /\ accepted <=> Len(after.sink) = Len(before.sink) + 1
                  /\ accepted =>
                        /\ after.last_geometry = Candidates[k].geom
                        /\ after.sink[Len(after.sink)].NATIONALCADASTRALREFERENCE = ref
                        /\ after.existing_refs = before.existing_refs \cup {ref}
                  /\ ~accepted =>
                        /\ after.sink = before.sink
                        /\ after.existing_refs = before.existing_refs
                        /\ after.features_added = before.features_added
                        /\ after.last_geometry = before.last_geometry
                        /\ after.last_feature_id = before.last_feature_id

\* C29 witness: a response of two candidates on a new output; the sink
\* rejects the first, which is neither counted nor recorded, and accepts the
\* second, whose geometry the call returns.
C29_Witness ==
    /\ CallDone
    /\ Len(Candidates) = 2
    /\ Refused(1) /\ wFates[1].add = "reject"
    /\ Attempted(2) /\ wFates[2].add = "accept"
    /\ wOut.features_added = 1
    /\ wOut.existing_exit = CallEntryRefs \cup {Candidates[2].NATIONALCADASTRALREFERENCE}
    /\ wOut.last_geometry = Candidates[2].geom

(***************************************************************************)
(* Claims about the decomposition of a reference, checked under            *)
(* SpecDecompose.                                                          *)
(***************************************************************************)
Separators == {n \in 1..Len(ref_catastale) : ref_catastale[n] = "."}

FirstSeparator == CHOOSE n \in Separators : \A m \in Separators : n <= m

LastSeparator == CHOOSE n \in Separators : \A m \in Separators : n >= m

Block ==
    IF Separators = {} THEN ref_catastale ELSE SubSeq(ref_catastale, 1, FirstSeparator - 1)

\* C18: the components are those of the guarded rule: ADMIN is the first
\* four characters of the block before the first separator when the block
\* has four, SEZIONE its fifth when it has five, FOGLIO its sixth to ninth
\* when it has nine, PARTICELLA the text after the last separator when there
\* is a separator, and the empty string otherwise; every reference has a
\* decomposition, and the example gives M011, 1, 0023 and 45.
C18_DecompositionGuarded ==
    refPc = "done" =>
        /\ refOut.ADMIN = (IF Len(Block) >= 4 THEN SubSeq(Block, 1, 4) ELSE <<>>)
        /\ refOut.SEZIONE = (IF Len(Block) >= 5 THEN SubSeq(Block, 5, 5) ELSE <<>>)
        /\ refOut.FOGLIO = (IF Len(Block) >= 9 THEN SubSeq(Block, 6, 9) ELSE <<>>)
        /\ refOut.PARTICELLA =
              (IF Separators # {}
               THEN SubSeq(ref_catastale, LastSeparator + 1, Len(ref_catastale))
               ELSE <<>>)
        /\ ref_catastale = ExampleRef =>
              refOut = [ADMIN |-> <<"M", "0", "1", "1">>, SEZIONE |-> <<"1">>,
                        FOGLIO |-> <<"0", "0", "2", "3">>, PARTICELLA |-> <<"4", "5">>]

(***************************************************************************)
(* Claims about the normalisation of the sheet, checked under SpecSheet.   *)
(***************************************************************************)
\* C19: the sheet handed to a query or a comparison has exactly four
\* characters and is the input without surrounding blanks with zeros put in
\* front of it (after its sign when it has one), whatever the length of the
\* input.
C19_SheetHasFourCharacters ==
    (sheetPc = "done" /\ foglioOut.used) =>
        /\ Len(foglioOut.foglio) = 4
        /\ \E n \in 0..4, m \in 0..1 :
              /\ m <= Len(Trim(foglioIn))
              /\ foglioOut.foglio =
                    SubSeq(Trim(foglioIn), 1, m) \o [k \in 1..n |-> "0"]
                        \o SubSeq(Trim(foglioIn), m + 1, Len(Trim(foglioIn)))

(***************************************************************************)
(* Claims about the decoding of coordinates, checked under SpecDecode.     *)
(***************************************************************************)
\* The digits of a stored integer before its last six, and its last six.
UpperDigits(digits) == SubSeq(digits, 1, Len(digits) - 6)

LowerDigits(digits) ==
    SubSeq(digits, IF Len(digits) > 6 THEN Len(digits) - 5 ELSE 1, Len(digits))

DecodedAs(value, digits) ==
    /\ value.ip = DigitsValue(UpperDigits(digits))
    /\ value.fp = DigitsValue(LowerDigits(digits))
    /\ value.fp \in 0..(ScaleFactor - 1)
    /\ Len(digits) < 10 => value = Decode(DigitsValue(digits))

\* C20: every row of the result gives one pair, in order, whose x and y
\* are the stored integers divided by 1000000: the integer part is the
\* number written by the digits before the last six and the fraction the
\* number written by the last six; it is what Decode gives for the rows of
\* the datasets, and 7250123456 decodes to 7250.123456.
C20_DecodeDividesByScale ==
    decodePc = "done" =>
        /\ Len(decoded) = Len(rawRow)
        /\ \A k \in 1..Len(rawRow) :
              /\ DecodedAs(decoded[k][1], rawRow[k].x)
              /\ DecodedAs(decoded[k][2], rawRow[k].y)
              /\ rawRow[k].x = ExampleRaw => decoded[k][1] = [ip |-> 7250, fp |-> 123456]
              /\ rawRow[k].y = ExampleRaw => decoded[k][2] = [ip |-> 7250, fp |-> 123456]

\* C20 witness: a result of two rows is decoded; the x of the first is the
\* example and the y of the second is below the factor.
C20_Witness ==
    /\ decodePc = "done"
    /\ Len(rawRow) = 2
    /\ rawRow[1].x = ExampleRaw
    /\ decoded[1][1] = [ip |-> 7250, fp |-> 123456]
    /\ rawRow[2].y = IntToStr(999999)
    /\ decoded[2][2] = [ip |-> 0, fp |-> 999999]

(***************************************************************************)
(* Claims about get_all_particelle, checked under SpecAll.                 *)
(***************************************************************************)
AllIds == cOut.coords

AllSection == Upper(Trim(cSezione))

\* The parcel ids of the rows of the municipality and the sheet, and of the
\* section when one is asked for.
IdsOfSheet ==
    LET rows == DatasetRows(FileOf(cComune)) IN
    {rows[k].particella : k \in
        {n \in 1..Len(rows) :
            /\ rows[n].comune = cComune
            /\ rows[n].foglio = ZFill4(Trim(cFoglio))
            /\ AllSection # <<>> => Substr16(rows[n].INSPIREID_LOCALID) = AllSection}}

\* C21: the mode returns the distinct parcel ids of the municipality and
\* the sheet, restricted to the section when one is given, each id once and
\* in lexicographic order.
C21_DistinctIdsInOrder ==
    (cPc = "done" /\ ~cIoError) =>
        /\ {AllIds[k] : k \in 1..Len(AllIds)} = IdsOfSheet
        /\ \A k \in 1..(Len(AllIds) - 1) :
              LexLeq(AllIds[k], AllIds[k + 1]) /\ AllIds[k] # AllIds[k + 1]

(***************************************************************************)
(* Specifications.                                                         *)
(***************************************************************************)
InitParse == StartParse /\ IdleResolve /\ IdleLocate /\ IdleFetch /\ IdleRun /\ IdleUnits

NextParse == ParseCall

SpecParse == InitParse /\ [][NextParse]_vars

InitResolve == IdleParse /\ StartResolve /\ IdleLocate /\ IdleFetch /\ IdleRun /\ IdleUnits

NextResolve == ResolveList \/ ResolveSingle

SpecResolve == InitResolve /\ [][NextResolve]_vars

InitLocate == IdleParse /\ IdleResolve /\ StartLocate /\ IdleFetch /\ IdleRun /\ IdleUnits

NextLocate == LocateCall

SpecLocate == InitLocate /\ [][NextLocate]_vars

InitAll == IdleParse /\ IdleResolve /\ StartAll /\ IdleFetch /\ IdleRun /\ IdleUnits

NextAll == AllCall

SpecAll == InitAll /\ [][NextAll]_vars

InitFetch == IdleParse /\ IdleResolve /\ IdleLocate /\ StartFetch /\ IdleRun /\ IdleUnits

NextFetch == FetchCall

SpecFetch == InitFetch /\ [][NextFetch]_vars

InitDecompose ==
    /\ IdleParse /\ IdleResolve /\ IdleLocate /\ IdleFetch /\ IdleRun
    /\ StartDecompose /\ IdleSheet /\ IdleDecode

NextDecompose == DecomposeList \/ DecomposeTestone

SpecDecompose == InitDecompose /\ [][NextDecompose]_vars

InitSheet ==
    /\ IdleParse /\ IdleResolve /\ IdleLocate /\ IdleFetch /\ IdleRun
    /\ IdleDecompose /\ StartSheet /\ IdleDecode

NextSheet == SheetNormalise \/ SheetNormaliseTestone

SpecSheet == InitSheet /\ [][NextSheet]_vars

InitDecode ==
    /\ IdleParse /\ IdleResolve /\ IdleLocate /\ IdleFetch /\ IdleRun
    /\ IdleDecompose /\ IdleSheet /\ StartDecode

NextDecode == DecodeList \/ DecodeSingle

SpecDecode == InitDecode /\ [][NextDecode]_vars

Init == IdleParse /\ IdleResolve /\ IdleLocate /\ IdleFetch /\ StartRun /\ IdleUnits

Next ==
    \/ ListBegin
    \/ ListResolve
    \/ ListPrepare
    \/ ListLookup
    \/ ListCancelBreak
    \/ ListLoopEnd
    \/ ListFetch
    \/ ListEndParcel
    \/ ListFinalize
    \/ Cancel
    \/ SingleBegin
    \/ CsvNextRow
    \/ SingleResolve
    \/ SingleLookup
    \/ SingleFetch
    \/ FcResolve
    \/ FcLookup
    \/ FcFetch
    \/ TestoneBegin
    \/ TestoneResolve
    \/ TestoneLookup
    \/ TestoneFetch

Spec == Init /\ [][Next]_vars

=============================================================================
